---- MODULE Spec2Model ----
(***************************************************************************)
(* termsuji-local: the GTP engine session (engine/gtp) driven by the UI    *)
(* thread and by background triggerEngineMove goroutines, with GnuGo as    *)
(* the environment behind the subprocess pipes.                            *)
(***************************************************************************)
EXTENDS Integers, Sequences, FiniteSets, TLC

\* ---------------------------------------------------------------- bounds
BoardSize == 2      \* config.BoardSize of the modelled game
MaxMoves == 3       \* the UI starts a PlayMove/Pass only below this move number
MaxTasks == 2       \* triggerEngineMove goroutines alive at the same time
MaxNodes == 5       \* nodes of a game tree, the root included
MaxRecMoves == 2    \* moves a game record holds
MaxStones == 4      \* stones on a board handed to the reader

Idx == 0 .. (BoardSize - 1)
\* The points the human clicks and the points GnuGo answers genmove with.
HumanPoints == {<<0, 0>>, <<1, 0>>}
EnginePoints == {<<0, 0>>}
UI == 0
Tasks == 1 .. MaxTasks
Threads == {UI} \cup Tasks

VARIABLES
    pc,            \* position of every thread in its code
    io,            \* per thread: "idle", or "sent" between write and read in sendCommand
    err,           \* per thread: the err of its last sendCommand or gtpToPos
    loc,           \* per thread: the locals of the running function
    mu,            \* g.mu: -1 when free, else the thread holding it
    stdinOpen,     \* g.stdin not yet closed by Close
    boardState,    \* *g.boardState, the live object
    myTurn, passCount, gameOver, playerColor,
    moveCallback, endCallback,   \* TRUE once registered
    gnugo,         \* the stones on GnuGo's own board
    uiBoardState,  \* GoBoardUI.BoardState: a reference
    cbLog,         \* arguments of the move callbacks fired so far, in firing order
    endLog,        \* outcomes of the game-end callbacks fired so far
    ret,           \* result of the UI thread's last session call
    callPre,       \* session state seen when the UI thread's running call took the lock
    nSpawned,      \* number of `go g.triggerEngineMove()` statements executed
    gnugoPrev,     \* GnuGo's move history: each move with the board before it
    tree,          \* the GameTree of planning mode: its nodes and Current
    treeCall,      \* the last call made on the GameTree, with its result
    rec,           \* the GameRecord: its fields in memory
    disk,          \* the content of the record's file
    recCall,       \* the running (or last) call on the GameRecord and its position
    fnCall,        \* the last call of a function of the codec or of the reader, with its result
    ui             \* the GoBoardUI of a game: its fields, the engine and the recorder it drives

vars == <<pc, io, err, loc, mu, stdinOpen, boardState, myTurn, passCount, gameOver,
          playerColor, moveCallback, endCallback, gnugo, uiBoardState, cbLog,
          endLog, ret, callPre, nSpawned, gnugoPrev, tree, treeCall, rec, disk, recCall,
          fnCall, ui>>

\* the variables of the function calls and of the board's UI
libVars == <<fnCall, ui>>

\* the variables of the game tree, of the game record and of the function calls
sgfVars == <<tree, treeCall, rec, disk, recCall, libVars>>

\* no function was called yet
NoFnCall == [op |-> "none"]

\* ---------------------------------------------------------------- codec
\* A protocol word: a vertex (column letter index 0 = 'A', decimal row), PASS,
\* RESIGN, or a word gtpToPos cannot decode (BAD).
Word(k, col, row) == [k |-> k, col |-> col, row |-> row]
PASSW == Word("PASS", 0, 0)
RESIGNW == Word("RESIGN", 0, 0)
BADW == Word("BAD", 0, 0)

\* posToGTP without the skip of 'I'
posToGTP_NoSkip(x, y, size) == Word("V", x, size - y)

posToGTP(x, y, size) ==
    Word("V", IF x >= 8 THEN x + 1 ELSE x, size - y)

gtpToPos(v, size) ==
    IF v.k = "PASS" THEN [x |-> -1, y |-> -1, err |-> FALSE]
    ELSE IF v.k = "RESIGN" THEN [x |-> -2, y |-> -2, err |-> FALSE]
    ELSE IF v.k = "BAD" THEN [x |-> 0, y |-> 0, err |-> TRUE]
    ELSE IF v.col < 0 \/ v.col > 19 THEN [x |-> 0, y |-> 0, err |-> TRUE]
    ELSE LET col == IF v.col > 7 THEN v.col - 1 ELSE v.col
             y == size - v.row
         IN  IF col < 0 \/ col >= size \/ y < 0 \/ y >= size
             THEN [x |-> 0, y |-> 0, err |-> TRUE]
             ELSE [x |-> col, y |-> y, err |-> FALSE]

oppositeColor(color) == IF color = 1 THEN 2 ELSE 1

\* ---------------------------------------------------------------- board
EmptyBoard == [y \in Idx |-> [x \in Idx |-> 0]]

NewBoardState ==
    [MoveNumber |-> 0, PlayerToMove |-> 1, Phase |-> "playing",
     Board |-> EmptyBoard, Outcome |-> "", LastMove |-> [X |-> -1, Y |-> -1]]

\* A reference to a BoardState: the session's live object, or an object of its own.
LiveRef == [kind |-> "live", val |-> NewBoardState]
CopyRef(bs) == [kind |-> "copy", val |-> bs]
NilRef == [kind |-> "nil", val |-> NewBoardState]
Deref(r, live) == IF r.kind = "live" THEN live ELSE r.val

\* copyBoardState: a fresh object holding the fields and a copied grid.
copyBoardState(bs) == CopyRef(bs)

\* GetBoardState returns g.boardState itself.
GetBoardState == LiveRef

IsMyTurn == myTurn /\ ~gameOver

SessionState == <<boardState, myTurn, passCount, gameOver>>

\* ---------------------------------------------------------------- GnuGo
\* The point GnuGo reads from a vertex (GTP: the letter I is not a column).
VertexPoint(v) ==
    IF v.k # "V" \/ v.col = 8 \/ v.col < 0 THEN [x |-> 0, y |-> 0, err |-> TRUE]
    ELSE LET col == IF v.col > 8 THEN v.col - 1 ELSE v.col
             y == BoardSize - v.row
         IN  IF col >= BoardSize \/ y < 0 \/ y >= BoardSize
             THEN [x |-> 0, y |-> 0, err |-> TRUE]
             ELSE [x |-> col, y |-> y, err |-> FALSE]

\* The vertex GnuGo prints for a point of its board.
PointVertex(x, y) == Word("V", IF x >= 8 THEN x + 1 ELSE x, BoardSize - y)

\* GnuGo's boards after it accepts a stone: the stone is placed and GnuGo removes
\* what its rules capture (here: nothing, or one stone of the other colour).
GnuGoPlace(g, x, y, c) ==
    LET placed == [g EXCEPT ![y][x] = c]
    IN  {placed} \cup
        { [placed EXCEPT ![q[2]][q[1]] = 0] :
            q \in { p \in Idx \X Idx : placed[p[2]][p[1]] = oppositeColor(c) } }

\* The reply to list_stones: the vertices of the stones of one colour.
ListStones(g, c) == { PointVertex(p[1], p[2]) : p \in { q \in Idx \X Idx : g[q[2]][q[1]] = c } }

\* The texts GnuGo answers final_score with.
Scores == {"B+0.5"}

\* ---------------------------------------------------------------- session helpers
EmptyLoc == [x |-> -1, y |-> -1, passCount |-> 0, copy |-> NilRef,
             outcome |-> "", black |-> {}]

SendSites == {"Connect_boardsize", "Connect_clear", "Connect_komi",
              "PlayMove_play", "PlayMove_black", "PlayMove_white", "Pass_play",
              "tem_genmove", "tem_black", "tem_white", "hge_score", "Close_quit"}

\* sendCommand has its reply, or its write failed on the closed pipe.
CanReply(t, site) == pc[t] = site /\ (io[t] = "sent" \/ (io[t] = "idle" /\ ~stdinOpen))
\* The reply may be a success reply only when the command was written.
CanSucceed(t) == io[t] = "sent"

FreeTasks == { t \in Tasks : pc[t] = "off" }
NextTask == CHOOSE t \in FreeTasks : \A u \in FreeTasks : t <= u

\* the go statement left out
Spawn_None(p) == p

\* go g.triggerEngineMove()
Spawn(p) == [p EXCEPT ![NextTask] = "tem_start"]

\* updateBoardFromGnuGo: clear the grid, then set the decodable stones.
updateBoardFromGnuGo(bs, blackStones, whiteStones) ==
    LET hit(ws, x, y) == \E v \in ws : LET d == gtpToPos(v, BoardSize)
                                       IN ~d.err /\ d.x >= 0 /\ d.y >= 0 /\ d.x = x /\ d.y = y
    IN  [bs EXCEPT !.Board = [y \in Idx |-> [x \in Idx |->
            IF hit(whiteStones, x, y) THEN 2
            ELSE IF hit(blackStones, x, y) THEN 1 ELSE 0]]]

\* The optimistic update of PlayMove and triggerEngineMove for a stone.
ApplyStone(bs, x, y, color, next) ==
    [bs EXCEPT !.Board[y][x] = color, !.LastMove = [X |-> x, Y |-> y],
               !.MoveNumber = @ + 1, !.PlayerToMove = next]

\* a pass that leaves the side to move as it was
ApplyPass_SameSide(bs, next) ==
    [bs EXCEPT !.LastMove = [X |-> -1, Y |-> -1], !.MoveNumber = @ + 1]

\* The update of Pass and triggerEngineMove for a pass.
ApplyPass(bs, next) ==
    [bs EXCEPT !.LastMove = [X |-> -1, Y |-> -1], !.MoveNumber = @ + 1,
               !.PlayerToMove = next]

\* The move callback registered by GoBoardUI.ConnectEngine; its refreshHint calls
\* IsMyTurn, which takes the session lock.
FireMove(t, x, y, color, ref) ==
    IF moveCallback
    THEN /\ mu = -1
         /\ cbLog' = Append(cbLog, [x |-> x, y |-> y, color |-> color,
                                    n |-> ref.val.MoveNumber, by |-> t])
         /\ uiBoardState' = ref
    ELSE UNCHANGED <<cbLog, uiBoardState>>

\* The game-end callback registered by GoBoardUI.ConnectEngine; it calls
\* GetBoardState, which takes the session lock.
FireEnd(t, outcome) ==
    IF endCallback
    THEN /\ mu = -1
         /\ endLog' = Append(endLog, [outcome |-> outcome, by |-> t])
         /\ uiBoardState' = GetBoardState
    ELSE UNCHANGED <<endLog, uiBoardState>>

\* ---------------------------------------------------------------- game record: text
\* Text is a sequence of characters.
\* the characters 'a' + n for n = 0 .. 25
Letters ==
    <<"a", "b", "c", "d", "e", "f", "g", "h", "i", "j", "k", "l", "m", "n", "o", "p", "q",
    "r", "s", "t", "u", "v", "w", "x", "y", "z">>
\* the characters ToLower changes
UpperLetters ==
    <<"A", "B", "C", "D", "E", "F", "G", "H", "I", "J", "K", "L", "M", "N", "O", "P", "Q",
    "R", "S", "T", "U", "V", "W", "X", "Y", "Z">>
Digits == {"0", "1", "2", "3", "4", "5", "6", "7", "8", "9"}
DigitChars == <<"0", "1", "2", "3", "4", "5", "6", "7", "8", "9">>
Spaces == {" ", "\n", "\t", "\r"}

\* flush: the fixed start of the root node
RootFixed ==
    <<"(", ";", "G", "M", "[", "1", "]", "F", "F", "[", "4", "]", "C", "A", "[", "U", "T",
    "F", "-", "8", "]", "A", "P", "[", "t", "e", "r", "m", "s", "u", "j", "i", "-", "l",
    "o", "c", "a", "l", ":", "1", ".", "0", "]">>
\* NewGameRecord: human := "Player"
Human ==
    <<"P", "l", "a", "y", "e", "r">>
\* NewGameRecord: the engine's name without its level
EngineName ==
    <<"G", "n", "u", "G", "o", " ", "L", "e", "v", "e", "l", " ">>
\* NewGameRecord: now.Format("2006-01-02")
Today ==
    <<"2", "0", "2", "6", "-", "1", "1", "-", "0", "3">>
\* parseResult: the prefixes that name the winner
WhiteWins ==
    <<"w", "h", "i", "t", "e", " ", "w", "i", "n", "s">>
BlackWins ==
    <<"b", "l", "a", "c", "k", " ", "w", "i", "n", "s">>
By ==
    <<" ", "b", "y", " ">>
Resign ==
    <<"r", "e", "s", "i", "g", "n">>
TimeWord ==
    <<"t", "i", "m", "e">>
Forfeit ==
    <<"f", "o", "r", "f", "e", "i", "t">>
\* the outcomes the UI hands to SetResult: a final_score reply,
OutcomeScore ==
    <<"B", "+", "0", ".", "5">>
\* the text of a resignation,
OutcomeResigned ==
    <<"W", "h", "i", "t", "e", " ", "w", "i", "n", "s", " ", "b", "y", " ", "r", "e", "s",
    "i", "g", "n", "a", "t", "i", "o", "n">>
\* a score in prose,
OutcomePoints ==
    <<"B", "l", "a", "c", "k", " ", "w", "i", "n", "s", " ", "b", "y", " ", "5", ".", "5",
    " ", "p", "o", "i", "n", "t", "s">>
\* and the text used when final_score failed
OutcomeEnded ==
    <<"G", "a", "m", "e", " ", "e", "n", "d", "e", "d">>
Outcomes == {OutcomeScore, OutcomeResigned, OutcomePoints, OutcomeEnded}

\* fmt.Sprintf("%d", n) for 0 <= n < 100
Decimal(n) == IF n < 10 THEN <<DigitChars[n + 1]>>
              ELSE <<DigitChars[(n \div 10) + 1], DigitChars[(n % 10) + 1]>>

\* komi in tenths of a point, and fmt.Sprintf("%.1f", komi)
KomiTenths == 65
FormatKomi(tenths) == Decimal(tenths \div 10) \o <<".">> \o Decimal(tenths % 10)

EngineLevel == 5

Min(S) == CHOOSE i \in S : \A j \in S : i <= j
Max(S) == CHOOSE i \in S : \A j \in S : j <= i

\* strings.HasPrefix, strings.ToLower, strings.TrimSpace, strings.Index
HasPrefix(str, prefix) == Len(prefix) <= Len(str) /\ SubSeq(str, 1, Len(prefix)) = prefix
ToLower(str) ==
    [i \in DOMAIN str |->
        IF \E k \in DOMAIN UpperLetters : UpperLetters[k] = str[i]
        THEN Letters[CHOOSE k \in DOMAIN UpperLetters : UpperLetters[k] = str[i]]
        ELSE str[i]]
TrimSpace(str) ==
    LET keep == {i \in DOMAIN str : str[i] \notin Spaces}
    IN  IF keep = {} THEN <<>> ELSE SubSeq(str, Min(keep), Max(keep))
Index(str, sub) ==
    LET at == {i \in 1 .. (Len(str) - Len(sub) + 1) : SubSeq(str, i, i + Len(sub) - 1) = sub}
    IN  IF at = {} THEN -1 ELSE Min(at) - 1

\* strings.Fields(str)[0], for a str without leading space
FirstField(str) ==
    LET gaps == {i \in DOMAIN str : str[i] \in Spaces}
    IN  IF gaps = {} THEN str ELSE SubSeq(str, 1, Min(gaps) - 1)

\* the number test of parseResult and isValidSGFResult: digits with at most one '.'
LooksNumeric(str) ==
    /\ Len(str) > 0
    /\ \A i \in DOMAIN str : str[i] \in Digits \cup {"."}
    /\ Cardinality({i \in DOMAIN str : str[i] = "."}) <= 1

isValidSGFResult(str) ==
    IF str \in {<<"?">>, <<"J", "i", "g", "o">>, <<"V", "o", "i", "d">>, <<"0">>} THEN TRUE
    ELSE IF Len(str) < 3 THEN FALSE
    ELSE IF str[1] \notin {"B", "W"} \/ str[2] # "+" THEN FALSE
    ELSE LET rest == SubSeq(str, 3, Len(str))
         IN  rest \in {<<"R">>, <<"T">>, <<"F">>, <<"?">>} \/ LooksNumeric(rest)

parseResult(outcome) ==
    LET o == TrimSpace(outcome)
        low == ToLower(o)
        winner == IF HasPrefix(low, WhiteWins) THEN "W" ELSE "B"
        byIdx == Index(low, By)
        rest == TrimSpace(SubSeq(low, byIdx + 5, Len(low)))
        score == FirstField(rest)
    IN  IF isValidSGFResult(o) THEN o
        ELSE IF ~HasPrefix(low, WhiteWins) /\ ~HasPrefix(low, BlackWins) THEN <<"?">>
        ELSE IF byIdx = -1 THEN <<winner, "+", "?">>
        ELSE IF HasPrefix(rest, Resign) THEN <<winner, "+", "R">>
        ELSE IF HasPrefix(rest, TimeWord) THEN <<winner, "+", "T">>
        ELSE IF HasPrefix(rest, Forfeit) THEN <<winner, "+", "F">>
        ELSE IF LooksNumeric(score) THEN <<winner, "+">> \o score
        ELSE <<winner, "+", "?">>

\* ---------------------------------------------------------------- codec: text
\* the character 'A' + n, for n = -1 .. 25
ColChar(n) == IF n = -1 THEN "@" ELSE UpperLetters[n + 1]

\* fmt.Sprintf("%d", n) for -100 < n < 100
SignedDecimal(n) == IF n < 0 THEN <<"-">> \o Decimal(-n) ELSE Decimal(n)

\* fmt.Sprintf("%c%d", col, row): the text of a vertex
VertexText(w) == <<ColChar(w.col)>> \o SignedDecimal(w.row)

\* strings.ToUpper
ToUpper(str) ==
    [i \in DOMAIN str |->
        IF \E k \in DOMAIN Letters : Letters[k] = str[i]
        THEN UpperLetters[CHOOSE k \in DOMAIN Letters : Letters[k] = str[i]]
        ELSE str[i]]

\* the byte of a character
Code(ch) ==
    IF \E k \in DOMAIN UpperLetters : UpperLetters[k] = ch
    THEN 64 + (CHOOSE k \in DOMAIN UpperLetters : UpperLetters[k] = ch)
    ELSE IF \E k \in DOMAIN Letters : Letters[k] = ch
    THEN 96 + (CHOOSE k \in DOMAIN Letters : Letters[k] = ch)
    ELSE IF \E k \in DOMAIN DigitChars : DigitChars[k] = ch
    THEN 47 + (CHOOSE k \in DOMAIN DigitChars : DigitChars[k] = ch)
    ELSE IF ch = "@" THEN 64 ELSE IF ch = "+" THEN 43 ELSE IF ch = "-" THEN 45
    ELSE IF ch = "." THEN 46 ELSE IF ch = "[" THEN 91 ELSE 32

\* the value of a text of digits
RECURSIVE DigitsValue(_)
DigitsValue(str) ==
    IF str = <<>> THEN 0
    ELSE 10 * DigitsValue(SubSeq(str, 1, Len(str) - 1)) + (Code(str[Len(str)]) - 48)

\* strconv.Atoi: an optional sign and at least one digit, nothing else
Atoi(str) ==
    LET signed == str # <<>> /\ str[1] \in {"+", "-"}
        body == IF signed THEN Tail(str) ELSE str
    IN  IF body = <<>> \/ \E i \in DOMAIN body : body[i] \notin Digits
        THEN [n |-> 0, err |-> TRUE]
        ELSE [n |-> IF signed /\ str[1] = "-" THEN -DigitsValue(body) ELSE DigitsValue(body),
              err |-> FALSE]

\* gtpToPos, its reading of the text: upper case without surrounding space,
\* the two words, the column as the byte vertex[0] - 'A', the row by Atoi
TextVertex(text) ==
    LET vertex == TrimSpace(ToUpper(text))
    IN  IF vertex = <<"P", "A", "S", "S">> THEN PASSW
        ELSE IF vertex = <<"R", "E", "S", "I", "G", "N">> THEN RESIGNW
        ELSE IF Len(vertex) < 2 THEN BADW
        ELSE LET col == (Code(vertex[1]) - 65 + 256) % 256
                 row == Atoi(Tail(vertex))
             IN  IF col <= 19 /\ row.err THEN BADW ELSE Word("V", col, row.n)

\* sgfCoord: the characters 'a'+x and 'a'+y; the character before 'a', a
\* backquote, is written "^" here
Chr(n) == IF n = -1 THEN "^" ELSE Letters[n + 1]
sgfCoord(x, y) == <<Chr(x), Chr(y)>>

\* the node AddMove builds
MoveNode(x, y, color) ==
    LET colorChar == IF color = 2 THEN "W" ELSE "B"
    IN  IF x = -1 /\ y = -1 THEN <<";", colorChar, "[", "]">>
        ELSE <<";", colorChar, "[">> \o sgfCoord(x, y) \o <<"]">>

RECURSIVE Concat(_)
\* the texts of a list, one after the other
Concat(texts) == IF texts = <<>> THEN <<>> ELSE Head(texts) \o Concat(Tail(texts))

Prop(key, value) == key \o <<"[">> \o value \o <<"]">>

\* what flush builds from the record
Document(r) ==
    RootFixed
    \o Prop(<<"S", "Z">>, Decimal(r.BoardSize))
    \o Prop(<<"K", "M">>, FormatKomi(r.Komi))
    \o Prop(<<"P", "B">>, r.PlayerBlack)
    \o Prop(<<"P", "W">>, r.PlayerWhite)
    \o Prop(<<"D", "T">>, r.Date)
    \o Prop(<<"R", "E">>, r.Result)
    \o <<"\n">>
    \o (IF Len(r.setupBlack) > 0 \/ Len(r.setupWhite) > 0
        THEN <<";">>
             \o (IF Len(r.setupBlack) > 0
                 THEN <<"A", "B">> \o Concat([i \in DOMAIN r.setupBlack |-> <<"[">> \o r.setupBlack[i] \o <<"]">>])
                 ELSE <<>>)
             \o (IF Len(r.setupWhite) > 0
                 THEN <<"A", "W">> \o Concat([i \in DOMAIN r.setupWhite |-> <<"[">> \o r.setupWhite[i] \o <<"]">>])
                 ELSE <<>>)
             \o <<"\n">>
        ELSE <<>>)
    \o Concat(r.moves)
    \o <<")", "\n">>

\* countMoves of the reader: the places where ';' is followed by B or W and '['
countMoves(content) ==
    Cardinality({i \in 1 .. (Len(content) - 2) :
                    content[i] = ";" /\ content[i + 1] \in {"B", "W"} /\ content[i + 2] = "["})

\* the record NewGameRecord builds; file is "open" or "nil", offset the position
\* of its file handle
GameRecord(boardSize, komi, color, level) ==
    [made |-> TRUE, BoardSize |-> boardSize, Komi |-> komi,
     PlayerBlack |-> IF color = 1 THEN Human ELSE EngineName \o Decimal(level),
     PlayerWhite |-> IF color = 1 THEN EngineName \o Decimal(level) ELSE Human,
     Date |-> Today, Result |-> <<"?">>,
     moves |-> <<>>, setupBlack |-> <<>>, setupWhite |-> <<>>,
     file |-> "open", offset |-> 0]

\* no record has been made
NoRecord == [made |-> FALSE]
\* no file is on the disk
NoFile == [exists |-> FALSE, content |-> <<>>]
\* no call on the record is running
NoRecCall ==
    [op |-> "none", arg |-> 0, at |-> "idle", err |-> FALSE, content |-> <<>>, before |-> <<>>]

\* ---------------------------------------------------------------- reader: captures
\* MakeBoard: board[y][x], all empty
MakeBoard(size) == [y \in 0 .. (size - 1) |-> [x \in 0 .. (size - 1) |-> 0]]

\* the four neighbours, in the order both loops visit them
Directions == <<<<0, -1>>, <<0, 1>>, <<-1, 0>>, <<1, 0>>>>

\* hasLibertiesDFS: the answer and the visited points it leaves behind
RECURSIVE hasLibertiesDFS(_, _, _, _, _, _)
RECURSIVE DFSNeighbours(_, _, _, _, _, _, _)
hasLibertiesDFS(board, visited, size, x, y, color) ==
    IF x < 0 \/ x >= size \/ y < 0 \/ y >= size THEN [found |-> FALSE, visited |-> visited]
    ELSE IF <<x, y>> \in visited THEN [found |-> FALSE, visited |-> visited]
    ELSE IF board[y][x] = 0 THEN [found |-> TRUE, visited |-> visited]
    ELSE IF board[y][x] # color THEN [found |-> FALSE, visited |-> visited]
    ELSE DFSNeighbours(board, visited \cup {<<x, y>>}, size, x, y, color, 1)

\* the loop over the neighbours, from the k-th on: it returns at the first liberty
DFSNeighbours(board, visited, size, x, y, color, k) ==
    IF k > Len(Directions) THEN [found |-> FALSE, visited |-> visited]
    ELSE LET r == hasLibertiesDFS(board, visited, size,
                                  x + Directions[k][1], y + Directions[k][2], color)
         IN  IF r.found THEN r
             ELSE DFSNeighbours(board, r.visited, size, x, y, color, k + 1)

\* hasLiberties: a fresh visited grid
hasLiberties(board, size, x, y, color) == hasLibertiesDFS(board, {}, size, x, y, color).found

\* removeGroup without the recursion: only the stone itself is taken
removeGroup_OneStone(board, size, x, y, color) ==
    IF x < 0 \/ x >= size \/ y < 0 \/ y >= size THEN board
    ELSE IF board[y][x] # color THEN board
    ELSE [board EXCEPT ![y][x] = 0]

\* removeGroup: the stone, then the group through each neighbour in turn
RECURSIVE removeGroup(_, _, _, _, _)
removeGroup(board, size, x, y, color) ==
    IF x < 0 \/ x >= size \/ y < 0 \/ y >= size THEN board
    ELSE IF board[y][x] # color THEN board
    ELSE LET b0 == [board EXCEPT ![y][x] = 0]
             b1 == removeGroup(b0, size, x + Directions[1][1], y + Directions[1][2], color)
             b2 == removeGroup(b1, size, x + Directions[2][1], y + Directions[2][2], color)
             b3 == removeGroup(b2, size, x + Directions[3][1], y + Directions[3][2], color)
         IN  removeGroup(b3, size, x + Directions[4][1], y + Directions[4][2], color)

\* RemoveCaptures: the loop over the neighbours of (x, y), from the k-th on
RECURSIVE CaptureNeighbours(_, _, _, _, _, _)
CaptureNeighbours(board, size, x, y, color, k) ==
    IF k > Len(Directions) THEN board
    ELSE LET nx == x + Directions[k][1]
             ny == y + Directions[k][2]
             opponent == IF color = 1 THEN 2 ELSE 1
             after == IF nx < 0 \/ nx >= size \/ ny < 0 \/ ny >= size THEN board
                      ELSE IF board[ny][nx] = opponent
                              /\ ~hasLiberties(board, size, nx, ny, opponent)
                      THEN removeGroup(board, size, nx, ny, opponent)
                      ELSE board
         IN  CaptureNeighbours(after, size, x, y, color, k + 1)

RemoveCaptures(board, size, x, y, color) == CaptureNeighbours(board, size, x, y, color, 1)

\* ReplayToEnd, one move on the board: board[y][x] = color; RemoveCaptures
ReplayMove(board, size, x, y, color) ==
    RemoveCaptures([board EXCEPT ![y][x] = color], size, x, y, color)

\* ---------------------------------------------------------------- reader: text
\* the first index from i on (1-based) whose character is in the set, or
\* Len + 1; the loops below go from one such character to the next
FirstIn(str, i, chars) ==
    IF i > Len(str) THEN Len(str) + 1
    ELSE CHOOSE j \in i .. (Len(str) + 1) :
            /\ j = Len(str) + 1 \/ str[j] \in chars
            /\ \A k \in i .. (j - 1) : str[k] \notin chars

\* the loop that reads a value up to its ']': a backslash skips the next character
RECURSIVE ValueEnd(_, _)
ValueEnd(str, i) ==
    LET j == FirstIn(str, i, {"]", "\\"})
    IN  IF i > Len(str) THEN i
        ELSE IF j > Len(str) \/ str[j] = "]" THEN j
        ELSE IF j + 1 <= Len(str) THEN ValueEnd(str, j + 2)
        ELSE ValueEnd(str, j + 1)

\* the end of a run of upper-case letters from i on
IsUpper(ch) == \E k \in DOMAIN UpperLetters : UpperLetters[k] = ch
KeyEnd(str, i) ==
    IF i > Len(str) THEN i
    ELSE CHOOSE j \in i .. (Len(str) + 1) :
            /\ j = Len(str) + 1 \/ ~IsUpper(str[j])
            /\ \A k \in i .. (j - 1) : IsUpper(str[k])

\* the next upper-case letter from i on, or Len + 1
KeyStart(str, i) ==
    IF i > Len(str) THEN Len(str) + 1
    ELSE CHOOSE j \in i .. (Len(str) + 1) :
            /\ j = Len(str) + 1 \/ IsUpper(str[j])
            /\ \A k \in i .. (j - 1) : ~IsUpper(str[k])

\* props[key] = val
PutProp(props, key, val) ==
    [k \in DOMAIN props \cup {key} |-> IF k = key THEN val ELSE props[k]]

\* extractProps: the values of one key, from i on; the last value wins
RECURSIVE ReadValues(_, _, _, _)
ReadValues(node, i, key, props) ==
    IF i <= Len(node) /\ node[i] = "["
    THEN LET close == ValueEnd(node, i + 1)
             val == SubSeq(node, i + 1, close - 1)
         IN  ReadValues(node, IF close <= Len(node) THEN close + 1 ELSE close,
                        key, PutProp(props, key, val))
    ELSE [i |-> i, props |-> props]

\* extractProps, from i on
RECURSIVE ExtractFrom(_, _, _)
ExtractFrom(node, i, props) ==
    LET k == KeyStart(node, i)
        r == ReadValues(node, KeyEnd(node, k), SubSeq(node, k, KeyEnd(node, k) - 1), props)
    IN  IF k > Len(node) THEN props ELSE ExtractFrom(node, r.i, r.props)

extractProps(node) == ExtractFrom(node, 1, <<>>)

\* parseProperties: the properties of the root node, which ends at the next
\* ';' or ')'
parseProperties(content) ==
    LET start == Index(content, <<"(", ";">>)
    IN  IF start = -1 THEN <<>>
        ELSE extractProps(SubSeq(content, start + 3, FirstIn(content, start + 3, {";", ")"}) - 1))

\* the board size both readers take: SZ when Atoi reads it, else 19
SizeOf(props) ==
    IF <<"S", "Z">> \in DOMAIN props /\ ~Atoi(props[<<"S", "Z">>]).err
    THEN Atoi(props[<<"S", "Z">>]).n ELSE 19

\* props[key], "" when the key is missing
PropOf(props, key) == IF key \in DOMAIN props THEN props[key] ELSE <<>>

\* int(ch - 'a'), the subtraction being one of bytes
Ord(ch) == (Code(ch) - 97 + 256) % 256

\* the end of a node that starts before i: the next ';' or ')' outside a value
RECURSIVE NodeEnd(_, _)
NodeEnd(content, i) ==
    LET j == FirstIn(content, i, {";", ")", "["})
    IN  IF i > Len(content) THEN i
        ELSE IF j > Len(content) \/ content[j] # "[" THEN j
        ELSE NodeEnd(content, ValueEnd(content, j + 1) + 1)

\* the end of the root node: the next ';' outside a value
RECURSIVE RootEnd(_, _)
RootEnd(content, i) ==
    LET j == FirstIn(content, i, {";", "["})
    IN  IF i > Len(content) THEN i
        ELSE IF j > Len(content) \/ content[j] # "[" THEN j
        ELSE RootEnd(content, ValueEnd(content, j + 1) + 1)

\* parseNodes, from i on: every node from its ';' to the next ';' or ')'. A
\* value that is not closed leaves the index one past the end of the content,
\* and the slice content[nodeStart:i] panics.
RECURSIVE NodesFrom(_, _)
NodesFrom(content, i) ==
    LET start == FirstIn(content, i, {";"})
        stop == NodeEnd(content, start + 1)
        rest == NodesFrom(content, stop)
    IN  IF start > Len(content) THEN [nodes |-> <<>>, panic |-> FALSE]
        ELSE IF stop > Len(content) + 1 THEN [nodes |-> <<>>, panic |-> TRUE]
        ELSE [nodes |-> <<SubSeq(content, start, stop - 1)>> \o rest.nodes,
              panic |-> rest.panic]

parseNodes(content) ==
    LET start == Index(content, <<"(", ";">>)
    IN  IF start = -1 THEN [nodes |-> <<>>, panic |-> FALSE]
        ELSE NodesFrom(content, RootEnd(content, start + 3))

\* parseMoveNode: colour, x, y and ok
parseMoveNode(text) ==
    LET node == TrimSpace(text)
        no == [color |-> 0, x |-> 0, y |-> 0, ok |-> FALSE]
        bracketStart == Index(node, <<"[">>)
        bracketEnd == Index(node, <<"]">>)
        coord == SubSeq(node, bracketStart + 2, bracketEnd)
        color == IF node[2] = "W" THEN 2 ELSE 1
    IN  IF Len(node) < 2 \/ node[1] # ";" THEN no
        ELSE IF node[2] \notin {"B", "W"} THEN no
        ELSE IF bracketStart = -1 \/ bracketEnd = -1 \/ bracketEnd <= bracketStart THEN no
        ELSE IF coord = <<>> THEN [color |-> color, x |-> -1, y |-> -1, ok |-> TRUE]
        ELSE IF Len(coord) # 2 THEN no
        ELSE [color |-> color, x |-> Ord(coord[1]), y |-> Ord(coord[2]), ok |-> TRUE]

\* applySetup: the values that follow AB or AW, from i on
RECURSIVE SetupValues(_, _, _, _, _)
SetupValues(content, i, color, board, size) ==
    IF i <= Len(content) /\ content[i] = "["
    THEN LET first == i + 1
             reads == first + 1 <= Len(content) /\ content[first + 1] # "]"
             close == IF reads THEN FirstIn(content, first, {"]"}) ELSE first
             coordStr == IF reads THEN SubSeq(content, first, close - 1) ELSE <<>>
             x == Ord(coordStr[1])
             y == Ord(coordStr[2])
             placed == IF Len(coordStr) = 2 /\ x < size /\ y < size
                       THEN [board EXCEPT ![y][x] = color] ELSE board
         IN  SetupValues(content, IF close <= Len(content) THEN close + 1 ELSE close,
                         color, placed, size)
    ELSE [i |-> i, board |-> board]

\* applySetup: the scan for AB and AW, from i on; it goes on at the next place
\* where an 'A' is followed by 'B' or 'W'
RECURSIVE SetupFrom(_, _, _, _)
SetupFrom(content, i, board, size) ==
    LET at == {j \in i .. (Len(content) - 1) :
                  content[j] = "A" /\ content[j + 1] \in {"B", "W"}}
        next == Min(at)
        r == SetupValues(content, next + 2, IF content[next + 1] = "W" THEN 2 ELSE 1,
                         board, size)
    IN  IF at = {} THEN board ELSE SetupFrom(content, r.i, r.board, size)

\* (mutation) the setup stones are not read
applySetup_None(content, board, size) == board

applySetup(content, board, size) ==
    IF Index(content, <<"(", ";">>) = -1 THEN board
    ELSE SetupFrom(content, Index(content, <<"(", ";">>) + 1, board, size)

\* ReplayToEnd: the loop over the nodes, from the k-th on
RECURSIVE ReplayNodes(_, _, _, _, _)
ReplayNodes(nodes, k, board, size, moveCount) ==
    IF k > Len(nodes) THEN [board |-> board, moveCount |-> moveCount]
    ELSE LET m == parseMoveNode(nodes[k])
         IN  IF ~m.ok THEN ReplayNodes(nodes, k + 1, board, size, moveCount)
             ELSE IF m.x = -1 /\ m.y = -1
             THEN ReplayNodes(nodes, k + 1, board, size, moveCount + 1)
             ELSE IF m.x < 0 \/ m.x >= size \/ m.y < 0 \/ m.y >= size
             THEN ReplayNodes(nodes, k + 1, board, size, moveCount + 1)
             ELSE ReplayNodes(nodes, k + 1, ReplayMove(board, size, m.x, m.y, m.color),
                              size, moveCount + 1)

\* ReplayToEnd of a file that can be read: the board, the move count and the
\* error, or the panic of make (a negative size) or of parseNodes
ReplayToEnd(content) ==
    LET size == SizeOf(parseProperties(content))
        parsed == parseNodes(content)
        r == ReplayNodes(parsed.nodes, 1, applySetup(content, MakeBoard(size), size), size, 0)
    IN  IF size < 0 \/ parsed.panic
        THEN [board |-> <<>>, moveCount |-> 0, err |-> FALSE, panic |-> TRUE]
        ELSE [board |-> r.board, moveCount |-> r.moveCount, err |-> FALSE, panic |-> FALSE]

\* ParseHeader of a file that can be read: the fields the listing shows
ParseHeader(content) ==
    LET props == parseProperties(content)
    IN  [BoardSize |-> SizeOf(props),
         PlayerBlack |-> PropOf(props, <<"P", "B">>),
         PlayerWhite |-> PropOf(props, <<"P", "W">>),
         Date |-> PropOf(props, <<"D", "T">>),
         Result |-> PropOf(props, <<"R", "E">>),
         MoveCount |-> countMoves(content),
         err |-> FALSE]

\* ---------------------------------------------------------------- reader: the listing
\* the order of file names: byte by byte, a prefix first
RECURSIVE NameLess(_, _)
NameLess(a, b) ==
    IF b = <<>> THEN FALSE
    ELSE IF a = <<>> THEN TRUE
    ELSE IF Code(Head(a)) # Code(Head(b)) THEN Code(Head(a)) < Code(Head(b))
    ELSE NameLess(Tail(a), Tail(b))

\* os.ReadDir: the entries of the directory, sorted by file name
RECURSIVE ReadDir(_)
ReadDir(entries) ==
    IF entries = {} THEN <<>>
    ELSE LET first == CHOOSE e \in entries :
                         \A o \in entries \ {e} : NameLess(e.name, o.name)
         IN  <<first>> \o ReadDir(entries \ {first})

\* strings.HasSuffix
HasSuffix(str, suffix) ==
    Len(suffix) <= Len(str) /\ SubSeq(str, Len(str) - Len(suffix) + 1, Len(str)) = suffix

\* ListGames: the loop from the last entry to the first, at its k-th round;
\* an entry that is a directory, has another suffix or cannot be read is
\* passed over
RECURSIVE ListFrom(_, _)
ListFrom(entries, k) ==
    IF k > Len(entries) THEN <<>>
    ELSE LET e == entries[(Len(entries) + 1) - k]
             info == ParseHeader(e.content)
         IN  (IF e.isDir \/ ~HasSuffix(e.name, <<".", "s", "g", "f">>) \/ ~e.readable
              THEN <<>>
              ELSE <<[FileName |-> e.name, BoardSize |-> info.BoardSize,
                      MoveCount |-> info.MoveCount]>>)
             \o ListFrom(entries, k + 1)

\* ListGames(dir): nothing and no error for a directory that does not exist,
\* the error of ReadDir otherwise
ListGames(dir) ==
    IF ~dir.exists THEN [games |-> <<>>, err |-> FALSE]
    ELSE IF ~dir.readable THEN [games |-> <<>>, err |-> TRUE]
    ELSE [games |-> ListFrom(ReadDir(dir.entries), 1), err |-> FALSE]

\* ---------------------------------------------------------------- game tree
\* The moves handed to AddMove and the child indices handed to Forward.
TreeMoves == {";B[aa]", ";W[ab]", ";B[]"}
ForwardArgs == -1 .. 2

\* A GameNode lives in the tree's arena `nodes`; a *GameNode is its position
\* there and 0 is nil.
nil == 0
GameNode(move, parent) == [Move |-> move, Parent |-> parent, Children |-> <<>>]

\* t.Root: the node NewGameTree allocates first
Root == 1

\* NewGameTree: root := &GameNode{}; Root and Current are root
NewGameTree == [nodes |-> <<GameNode("", nil)>>, Current |-> Root]

\* Children[idx] of Go's zero-based slice
At(children, idx) == children[idx + 1]

\* (mutation) the search for an existing child is missing: always a new node
AddMove_NoDedup(t, move) ==
    LET node == Len(t.nodes) + 1
    IN  [tree |-> [nodes |-> Append([t.nodes EXCEPT ![t.Current].Children = Append(@, node)],
                                    GameNode(move, t.Current)),
                   Current |-> node],
         ret |-> node]

\* (mutation) the new node is not appended to Current.Children
AddMove_NotLinked(t, move) ==
    LET children == t.nodes[t.Current].Children
        same == {i \in DOMAIN children : t.nodes[children[i]].Move = move}
        node == Len(t.nodes) + 1
    IN  IF same # {}
        THEN [tree |-> [t EXCEPT !.Current = children[Min(same)]], ret |-> children[Min(same)]]
        ELSE [tree |-> [nodes |-> Append(t.nodes, GameNode(move, t.Current)),
                        Current |-> node],
              ret |-> node]

\* AddMove: the first child with the same move, else a new node appended to
\* Current.Children; Current moves to it and it is returned
AddMove(t, move) ==
    LET children == t.nodes[t.Current].Children
        same == {i \in DOMAIN children : t.nodes[children[i]].Move = move}
        node == Len(t.nodes) + 1
    IN  IF same # {}
        THEN [tree |-> [t EXCEPT !.Current = children[Min(same)]], ret |-> children[Min(same)]]
        ELSE [tree |-> [nodes |-> Append([t.nodes EXCEPT ![t.Current].Children = Append(@, node)],
                                         GameNode(move, t.Current)),
                        Current |-> node],
              ret |-> node]

\* (mutation) Back goes all the way to the root
Back_ToRoot(t) ==
    IF t.Current = Root THEN [tree |-> t, ret |-> FALSE]
    ELSE [tree |-> [t EXCEPT !.Current = Root], ret |-> TRUE]

\* Back: to the parent; false at the root
Back(t) ==
    IF t.Current = Root THEN [tree |-> t, ret |-> FALSE]
    ELSE [tree |-> [t EXCEPT !.Current = t.nodes[t.Current].Parent], ret |-> TRUE]

\* Forward: to Children[idx]; false when there is no such child
Forward(t, idx) ==
    LET children == t.nodes[t.Current].Children
    IN  IF idx < 0 \/ idx >= Len(children) THEN [tree |-> t, ret |-> FALSE]
        ELSE [tree |-> [t EXCEPT !.Current = At(children, idx)], ret |-> TRUE]

\* childIndex: the first index of Current among its parent's children, else -1
childIndex(t) ==
    IF t.nodes[t.Current].Parent = nil THEN -1
    ELSE LET siblings == t.nodes[t.nodes[t.Current].Parent].Children
             hits == {i \in DOMAIN siblings : siblings[i] = t.Current}
         IN  IF hits = {} THEN -1 ELSE Min(hits) - 1

\* (mutation) the wrap-around is missing: the last sibling stays where it is
NextVariation_NoWrap(t) ==
    IF t.nodes[t.Current].Parent = nil THEN [tree |-> t, ret |-> FALSE]
    ELSE LET siblings == t.nodes[t.nodes[t.Current].Parent].Children
         IN  IF Len(siblings) < 2 THEN [tree |-> t, ret |-> FALSE]
             ELSE LET idx == childIndex(t)
                      next == IF idx + 1 < Len(siblings) THEN idx + 1 ELSE idx
                  IN  [tree |-> [t EXCEPT !.Current = At(siblings, next)], ret |-> TRUE]

\* NextVariation: to the next sibling, wrapping around
NextVariation(t) ==
    IF t.nodes[t.Current].Parent = nil THEN [tree |-> t, ret |-> FALSE]
    ELSE LET siblings == t.nodes[t.nodes[t.Current].Parent].Children
         IN  IF Len(siblings) < 2 THEN [tree |-> t, ret |-> FALSE]
             ELSE LET idx == childIndex(t)
                  IN  [tree |-> [t EXCEPT !.Current = At(siblings, (idx + 1) % Len(siblings))],
                       ret |-> TRUE]

\* (mutation) PrevVariation also makes the sibling it goes to the first child
PrevVariation_Promote(t) ==
    LET parent == t.nodes[t.Current].Parent
        siblings == t.nodes[parent].Children
        idx == childIndex(t)
        to == At(siblings, (idx - 1 + Len(siblings)) % Len(siblings))
    IN  IF parent = nil \/ Len(siblings) < 2 THEN [tree |-> t, ret |-> FALSE]
        ELSE [tree |-> [t EXCEPT !.Current = to,
                                 !.nodes[parent].Children =
                                     <<to>> \o SelectSeq(siblings, LAMBDA c : c # to)],
              ret |-> TRUE]

\* PrevVariation: to the previous sibling, wrapping around
PrevVariation(t) ==
    IF t.nodes[t.Current].Parent = nil THEN [tree |-> t, ret |-> FALSE]
    ELSE LET siblings == t.nodes[t.nodes[t.Current].Parent].Children
         IN  IF Len(siblings) < 2 THEN [tree |-> t, ret |-> FALSE]
             ELSE LET idx == childIndex(t)
                  IN  [tree |-> [t EXCEPT !.Current =
                                     At(siblings, (idx - 1 + Len(siblings)) % Len(siblings))],
                       ret |-> TRUE]


RECURSIVE PathToRoot(_, _)
\* the loop of PathFromRoot: the moves from node up to the root, node first
PathToRoot(t, node) ==
    IF node = Root THEN <<>>
    ELSE <<t.nodes[node].Move>> \o PathToRoot(t, t.nodes[node].Parent)

\* the reversal loop of PathFromRoot
Reverse(path) == [i \in 1 .. Len(path) |-> path[Len(path) + 1 - i]]

\* (mutation) the reversal is missing: the path runs from Current to the root
PathFromRoot_NotReversed(t) == PathToRoot(t, t.Current)

\* PathFromRoot: the moves from the root to Current, without the root's
PathFromRoot(t) == Reverse(PathToRoot(t, t.Current))

\* NumVariations: the number of children of Current's parent; 0 at the root
NumVariations(t) ==
    IF t.nodes[t.Current].Parent = nil THEN 0
    ELSE Len(t.nodes[t.nodes[t.Current].Parent].Children)

\* (mutation) the index is counted from one
VariationIndex_OneBased(t) ==
    IF t.nodes[t.Current].Parent = nil THEN -1 ELSE childIndex(t) + 1

\* VariationIndex: which child of its parent Current is; -1 at the root
VariationIndex(t) ==
    IF t.nodes[t.Current].Parent = nil THEN -1 ELSE childIndex(t)

\* HasChildren
HasChildren(t) == Len(t.nodes[t.Current].Children) > 0

\* treeCall before any call
NoTreeCall == [op |-> "none", ret |-> FALSE]

\* ---------------------------------------------------------------- the board's UI: state
\* The GoBoardUI after ConnectEngine with a recorder: its own fields, and of
\* the engine and the recorder what the UI sees of them - IsMyTurn, the number
\* of calls that made the engine send commands, the moves GnuGo holds (each
\* <<x, y, color>>), the recorder's move list.
\* prePlanBoard is <<>> for nil, else <<Board, PlayerToMove, LastMove>>.
NewGoBoardUI ==
    [planningMode |-> FALSE, finished |-> FALSE,
     Board |-> EmptyBoard, PlayerToMove |-> 1, LastMove |-> <<-1, -1>>,
     moveHistory |-> <<>>,
     prePlanBoard |-> <<>>, prePlanHistory |-> <<>>,
     planBoard |-> <<>>, planColor |-> 0, planLastMove |-> <<-1, -1>>,
     myTurn |-> TRUE, engCalls |-> 0, engMoves |-> <<>>, recMoves |-> <<>>,
     op |-> "none"]

\* ---------------------------------------------------------------- initial state
Init ==
    /\ pc = [t \in Threads |-> IF t = UI THEN "new" ELSE "off"]
    /\ io = [t \in Threads |-> "idle"]
    /\ err = [t \in Threads |-> FALSE]
    /\ loc = [t \in Threads |-> EmptyLoc]
    /\ mu = -1
    /\ stdinOpen = TRUE
    /\ boardState = NewBoardState
    /\ myTurn = FALSE /\ passCount = 0 /\ gameOver = FALSE
    /\ playerColor \in {1, 2}
    /\ moveCallback = FALSE /\ endCallback = FALSE
    /\ gnugo = EmptyBoard
    /\ uiBoardState = NilRef
    /\ cbLog = <<>> /\ endLog = <<>>
    /\ ret = "none"
    /\ callPre = <<>>
    /\ nSpawned = 0
    /\ gnugoPrev = <<>>
    /\ tree = NewGameTree /\ treeCall = NoTreeCall
    /\ rec = NoRecord /\ disk = NoFile /\ recCall = NoRecCall
    /\ fnCall = NoFnCall
    /\ ui = NewGoBoardUI

\* ---------------------------------------------------------------- sendCommand
\* Write the command line to g.stdin; the reply is read in the caller's next step.
SendCommandWrite(t) ==
    /\ pc[t] \in SendSites /\ io[t] = "idle" /\ stdinOpen
    /\ io' = [io EXCEPT ![t] = "sent"]
    /\ UNCHANGED <<pc, err, loc, mu, stdinOpen, boardState, myTurn, passCount, gameOver,
                   playerColor, moveCallback, endCallback, gnugo, uiBoardState,
                   cbLog, endLog, ret, callPre, nSpawned, gnugoPrev, sgfVars>>

\* ---------------------------------------------------------------- Connect
\* exec.Command, the pipes and cmd.Start
ConnectStart ==
    /\ pc[UI] = "new"
    /\ \E started \in BOOLEAN :
          IF started
          THEN pc' = [pc EXCEPT ![UI] = "Connect_boardsize"] /\ ret' = ret
          ELSE pc' = [pc EXCEPT ![UI] = "dead"] /\ ret' = "connect failed"
    /\ UNCHANGED <<io, err, loc, mu, stdinOpen, boardState, myTurn, passCount, gameOver,
                   playerColor, moveCallback, endCallback, gnugo, uiBoardState,
                   cbLog, endLog, callPre, nSpawned, gnugoPrev, sgfVars>>

\* boardsize, clear_board: the reply decides between the next command and the error return
ConnectSetup ==
    \E site \in {"Connect_boardsize", "Connect_clear"} :
       /\ CanReply(UI, site)
       /\ \E ok \in {b \in BOOLEAN : b => CanSucceed(UI)} :
             IF ok
             THEN /\ pc' = [pc EXCEPT ![UI] = IF site = "Connect_boardsize"
                                               THEN "Connect_clear" ELSE "Connect_komi"]
                  /\ ret' = ret
             ELSE pc' = [pc EXCEPT ![UI] = "dead"] /\ ret' = "connect failed"
       /\ io' = [io EXCEPT ![UI] = "idle"]
       /\ err' = [err EXCEPT ![UI] = (pc'[UI] = "dead")]
       /\ UNCHANGED <<loc, mu, stdinOpen, boardState, myTurn, passCount, gameOver,
                      playerColor, moveCallback, endCallback, gnugo, uiBoardState,
                      cbLog, endLog, callPre, nSpawned, gnugoPrev, sgfVars>>

\* (mutation) the turn is given to the human whatever colour the human plays
ConnectKomi_HumanFirst ==
    /\ CanReply(UI, "Connect_komi")
    /\ io' = [io EXCEPT ![UI] = "idle"]
    /\ \E ok \in {b \in BOOLEAN : b => CanSucceed(UI)} :
          IF ~ok
          THEN /\ pc' = [pc EXCEPT ![UI] = "dead"] /\ ret' = "connect failed"
               /\ UNCHANGED <<myTurn, nSpawned>>
          ELSE IF playerColor = 1
          THEN /\ myTurn' = TRUE
               /\ pc' = [pc EXCEPT ![UI] = "OnMove"] /\ ret' = ret
               /\ UNCHANGED nSpawned
          ELSE /\ myTurn' = TRUE
               /\ pc' = [Spawn(pc) EXCEPT ![UI] = "OnMove"] /\ ret' = ret
               /\ nSpawned' = nSpawned + 1
    /\ err' = [err EXCEPT ![UI] = (pc'[UI] = "dead"), ![1] = FALSE]
    /\ UNCHANGED <<loc, mu, stdinOpen, boardState, passCount, gameOver,
                   playerColor, moveCallback, endCallback, gnugo, uiBoardState,
                   cbLog, endLog, callPre, gnugoPrev, sgfVars>>

\* komi, then who plays first: the human when black, else the engine task is started
ConnectKomi ==
    /\ CanReply(UI, "Connect_komi")
    /\ io' = [io EXCEPT ![UI] = "idle"]
    /\ \E ok \in {b \in BOOLEAN : b => CanSucceed(UI)} :
          IF ~ok
          THEN /\ pc' = [pc EXCEPT ![UI] = "dead"] /\ ret' = "connect failed"
               /\ UNCHANGED <<myTurn, nSpawned>>
          ELSE IF playerColor = 1
          THEN /\ myTurn' = TRUE
               /\ pc' = [pc EXCEPT ![UI] = "OnMove"] /\ ret' = ret
               /\ UNCHANGED nSpawned
          ELSE /\ myTurn' = FALSE
               /\ pc' = [Spawn(pc) EXCEPT ![UI] = "OnMove"] /\ ret' = ret
               /\ nSpawned' = nSpawned + 1
    /\ err' = [err EXCEPT ![UI] = (pc'[UI] = "dead"), ![1] = FALSE]
    /\ UNCHANGED <<loc, mu, stdinOpen, boardState, passCount, gameOver,
                   playerColor, moveCallback, endCallback, gnugo, uiBoardState,
                   cbLog, endLog, callPre, gnugoPrev, sgfVars>>

\* GoBoardUI.ConnectEngine after Connect: e.OnMove(...)
UiOnMove ==
    /\ pc[UI] = "OnMove"
    /\ moveCallback' = TRUE
    /\ pc' = [pc EXCEPT ![UI] = "OnGameEnd"]
    /\ UNCHANGED <<io, err, loc, mu, stdinOpen, boardState, myTurn, passCount, gameOver,
                   playerColor, endCallback, gnugo, uiBoardState,
                   cbLog, endLog, ret, callPre, nSpawned, gnugoPrev, sgfVars>>

\* e.OnGameEnd(...)
UiOnGameEnd ==
    /\ pc[UI] = "OnGameEnd"
    /\ endCallback' = TRUE
    /\ pc' = [pc EXCEPT ![UI] = "ConnectEngine_get"]
    /\ UNCHANGED <<io, err, loc, mu, stdinOpen, boardState, myTurn, passCount, gameOver,
                   playerColor, moveCallback, gnugo, uiBoardState,
                   cbLog, endLog, ret, callPre, nSpawned, gnugoPrev, sgfVars>>

\* g.BoardState = e.GetBoardState(): Lock, return g.boardState, Unlock
UiGetBoardState ==
    /\ pc[UI] = "ConnectEngine_get"
    /\ mu = -1
    /\ uiBoardState' = GetBoardState
    /\ pc' = [pc EXCEPT ![UI] = "idle"]
    /\ UNCHANGED <<io, err, loc, mu, stdinOpen, boardState, myTurn, passCount, gameOver,
                   playerColor, moveCallback, endCallback, gnugo,
                   cbLog, endLog, ret, callPre, nSpawned, gnugoPrev, sgfVars>>

\* ---------------------------------------------------------------- PlayMove / Pass
colorToGTP(color) == IF color = 1 THEN "black" ELSE "white"
gtpToColor(color) == IF color = "black" \/ color = "b" THEN 1 ELSE 2

\* (mutation) the Unlock is missing: the caller keeps the lock
Unlock_Missing(t) == t

\* g.mu.Unlock()
Unlock(t) == -1

\* (mutation) the turn flag is left as it was after a human move
TurnAfterHumanMove_Kept == myTurn

\* g.myTurn = false, after the human's move or pass is applied
TurnAfterHumanMove == FALSE

\* The callbacks the UI thread has fired so far.
UiFired == Cardinality({i \in DOMAIN cbLog : cbLog[i].by = UI})
           + Cardinality({i \in DOMAIN endLog : endLog[i].by = UI})

\* What a call of the UI thread could change: the session state, the callbacks
\* fired by the caller and the engine tasks started.
CallSnapshot == <<SessionState, UiFired, nSpawned>>

\* callPre outside a call of the UI thread
NoCall == <<>>

\* The error return of PlayMove and Pass: unlock and report.
ErrorReturn(t, msg) ==
    /\ mu' = Unlock(t)
    /\ ret' = msg
    /\ pc' = [pc EXCEPT ![t] = "returned"]
    /\ loc' = [loc EXCEPT ![t] = EmptyLoc]
    /\ callPre' = NoCall

Errors == {"game is over", "not your turn", "illegal move", "failed to pass"}

\* The UI thread may start a call that can apply a move only within the bounds.
MayStart ==
    gameOver \/ ~myTurn \/ (boardState.MoveNumber < MaxMoves /\ FreeTasks # {})

\* PlayMove(x, y): g.mu.Lock()
PlayMoveLock ==
    /\ pc[UI] = "idle" /\ mu = -1 /\ MayStart
    /\ \E p \in HumanPoints : loc' = [loc EXCEPT ![UI] = [EmptyLoc EXCEPT !.x = p[1], !.y = p[2]]]
    /\ mu' = UI
    /\ err' = [err EXCEPT ![UI] = FALSE]
    /\ pc' = [pc EXCEPT ![UI] = "PlayMove_locked"]
    /\ callPre' = CallSnapshot
    /\ UNCHANGED <<io, stdinOpen, boardState, myTurn, passCount, gameOver,
                   playerColor, moveCallback, endCallback, gnugo, uiBoardState,
                   cbLog, endLog, ret, nSpawned, gnugoPrev, sgfVars>>

\* Pass(): g.mu.Lock()
PassLock ==
    /\ pc[UI] = "idle" /\ mu = -1 /\ MayStart
    /\ loc' = [loc EXCEPT ![UI] = EmptyLoc]
    /\ mu' = UI
    /\ err' = [err EXCEPT ![UI] = FALSE]
    /\ pc' = [pc EXCEPT ![UI] = "Pass_locked"]
    /\ callPre' = CallSnapshot
    /\ UNCHANGED <<io, stdinOpen, boardState, myTurn, passCount, gameOver,
                   playerColor, moveCallback, endCallback, gnugo, uiBoardState,
                   cbLog, endLog, ret, nSpawned, gnugoPrev, sgfVars>>

\* the gameOver and myTurn tests of PlayMove and Pass
TurnCheck ==
    \E op \in {"PlayMove", "Pass"} :
       /\ pc[UI] = IF op = "PlayMove" THEN "PlayMove_locked" ELSE "Pass_locked"
       /\ IF gameOver THEN ErrorReturn(UI, "game is over")
          ELSE IF ~myTurn THEN ErrorReturn(UI, "not your turn")
          ELSE /\ pc' = [pc EXCEPT ![UI] = IF op = "PlayMove" THEN "PlayMove_play" ELSE "Pass_play"]
               /\ UNCHANGED <<mu, ret, loc, callPre>>
       /\ UNCHANGED <<io, err, stdinOpen, boardState, myTurn, passCount, gameOver,
                      playerColor, moveCallback, endCallback, gnugo, uiBoardState,
                      cbLog, endLog, nSpawned, gnugoPrev, sgfVars>>

\* (mutation) the grid is updated before the reply to play is looked at
PlayMoveRejected_Premature ==
    /\ CanReply(UI, "PlayMove_play")
    /\ io' = [io EXCEPT ![UI] = "idle"]
    /\ err' = [err EXCEPT ![UI] = TRUE]
    /\ boardState' = [boardState EXCEPT !.Board[loc[UI].y][loc[UI].x] = playerColor]
    /\ ErrorReturn(UI, "illegal move")
    /\ UNCHANGED <<stdinOpen, myTurn, passCount, gameOver,
                   playerColor, moveCallback, endCallback, gnugo, uiBoardState,
                   cbLog, endLog, nSpawned, gnugoPrev, sgfVars>>

\* PlayMove: GnuGo rejects "play <color> <vertex>" (or the exchange fails)
PlayMoveRejected ==
    /\ CanReply(UI, "PlayMove_play")
    /\ io' = [io EXCEPT ![UI] = "idle"]
    /\ err' = [err EXCEPT ![UI] = TRUE]
    /\ ErrorReturn(UI, "illegal move")
    /\ UNCHANGED <<stdinOpen, boardState, myTurn, passCount, gameOver,
                   playerColor, moveCallback, endCallback, gnugo, uiBoardState,
                   cbLog, endLog, nSpawned, gnugoPrev, sgfVars>>

\* PlayMove: GnuGo accepts the stone; the optimistic update of the grid
PlayMoveAccepted ==
    /\ CanReply(UI, "PlayMove_play") /\ CanSucceed(UI)
    /\ LET d == VertexPoint(posToGTP(loc[UI].x, loc[UI].y, BoardSize))
           c == gtpToColor(colorToGTP(playerColor))
       IN  /\ ~d.err /\ gnugo[d.y][d.x] = 0
           /\ gnugo' \in GnuGoPlace(gnugo, d.x, d.y, c)
    /\ gnugoPrev' = Append(gnugoPrev, [board |-> gnugo,
                                        move |-> posToGTP(loc[UI].x, loc[UI].y, BoardSize)])
    /\ io' = [io EXCEPT ![UI] = "idle"]
    /\ err' = [err EXCEPT ![UI] = FALSE]
    /\ boardState' = ApplyStone(boardState, loc[UI].x, loc[UI].y, playerColor,
                                oppositeColor(playerColor))
    /\ passCount' = 0
    /\ pc' = [pc EXCEPT ![UI] = "PlayMove_black"]
    /\ UNCHANGED <<loc, mu, stdinOpen, myTurn, gameOver,
                   playerColor, moveCallback, endCallback, uiBoardState,
                   cbLog, endLog, ret, callPre, nSpawned, sgfVars>>

\* updateBoardFromGnuGo: blackStones, _ := sendCommand("list_stones black")
ListBlack(t) ==
    \E site \in {"PlayMove_black", "tem_black"} :
       /\ CanReply(t, site)
       /\ \E ok \in {b \in BOOLEAN : b => CanSucceed(t)} :
             /\ loc' = [loc EXCEPT ![t].black = IF ok THEN ListStones(gnugo, 1) ELSE {}]
             /\ err' = [err EXCEPT ![t] = ~ok]
       /\ io' = [io EXCEPT ![t] = "idle"]
       /\ pc' = [pc EXCEPT ![t] = IF site = "PlayMove_black" THEN "PlayMove_white" ELSE "tem_white"]
       /\ UNCHANGED <<mu, stdinOpen, boardState, myTurn, passCount, gameOver,
                      playerColor, moveCallback, endCallback, gnugo, uiBoardState,
                      cbLog, endLog, ret, callPre, nSpawned, gnugoPrev, sgfVars>>

\* PlayMove: the white stones arrive, the grid is rebuilt, the turn goes to the
\* engine, the copy is taken and the lock released
PlayMoveFinish ==
    /\ CanReply(UI, "PlayMove_white")
    /\ io' = [io EXCEPT ![UI] = "idle"]
    /\ \E ok \in {b \in BOOLEAN : b => CanSucceed(UI)} :
          /\ boardState' = updateBoardFromGnuGo(boardState, loc[UI].black,
                                                IF ok THEN ListStones(gnugo, 2) ELSE {})
          /\ err' = [err EXCEPT ![UI] = ~ok]
    /\ myTurn' = TurnAfterHumanMove
    /\ callPre' = NoCall
    /\ loc' = [loc EXCEPT ![UI].copy = copyBoardState(boardState')]
    /\ mu' = Unlock(UI)
    /\ pc' = [pc EXCEPT ![UI] = "PlayMove_cb"]
    /\ UNCHANGED <<stdinOpen, passCount, gameOver,
                   playerColor, moveCallback, endCallback, gnugo, uiBoardState,
                   cbLog, endLog, ret, nSpawned, gnugoPrev, sgfVars>>

\* PlayMove: g.moveCallback(x, y, playerColor, boardStateCopy)
PlayMoveCallback ==
    /\ pc[UI] = "PlayMove_cb"
    /\ FireMove(UI, loc[UI].x, loc[UI].y, playerColor, loc[UI].copy)
    /\ err' = [err EXCEPT ![UI] = FALSE]
    /\ pc' = [pc EXCEPT ![UI] = "PlayMove_go"]
    /\ UNCHANGED <<io, loc, mu, stdinOpen, boardState, myTurn, passCount, gameOver,
                   playerColor, moveCallback, endCallback, gnugo,
                   endLog, ret, callPre, nSpawned, gnugoPrev, sgfVars>>

\* PlayMove and Pass: go g.triggerEngineMove(); return nil
StartEngineTask ==
    /\ pc[UI] \in {"PlayMove_go", "Pass_go"}
    /\ pc' = [Spawn(pc) EXCEPT ![UI] = "returned"]
    /\ nSpawned' = nSpawned + 1
    /\ ret' = "ok"
    /\ err' = [err EXCEPT ![NextTask] = FALSE]
    /\ loc' = [loc EXCEPT ![UI] = EmptyLoc]
    /\ UNCHANGED <<io, mu, stdinOpen, boardState, myTurn, passCount, gameOver,
                   playerColor, moveCallback, endCallback, gnugo, uiBoardState,
                   cbLog, endLog, callPre, gnugoPrev, sgfVars>>

\* The call of the UI thread has returned; the thread is back in the event loop.
UiReturn ==
    /\ pc[UI] = "returned"
    /\ pc' = [pc EXCEPT ![UI] = "idle"]
    /\ ret' = "none"
    /\ err' = [err EXCEPT ![UI] = FALSE]
    /\ UNCHANGED <<io, loc, mu, stdinOpen, boardState, myTurn, passCount, gameOver,
                   playerColor, moveCallback, endCallback, gnugo, uiBoardState,
                   cbLog, endLog, callPre, nSpawned, gnugoPrev, sgfVars>>

\* Pass: GnuGo rejects "play <color> pass" (or the exchange fails)
PassRejected ==
    /\ CanReply(UI, "Pass_play")
    /\ io' = [io EXCEPT ![UI] = "idle"]
    /\ err' = [err EXCEPT ![UI] = TRUE]
    /\ ErrorReturn(UI, "failed to pass")
    /\ UNCHANGED <<stdinOpen, boardState, myTurn, passCount, gameOver,
                   playerColor, moveCallback, endCallback, gnugo, uiBoardState,
                   cbLog, endLog, nSpawned, gnugoPrev, sgfVars>>

\* Pass: accepted; the pass is applied, the copy taken and the lock released
PassAccepted ==
    /\ CanReply(UI, "Pass_play") /\ CanSucceed(UI)
    /\ gnugoPrev' = Append(gnugoPrev, [board |-> gnugo, move |-> PASSW])
    /\ io' = [io EXCEPT ![UI] = "idle"]
    /\ err' = [err EXCEPT ![UI] = FALSE]
    /\ boardState' = ApplyPass(boardState, oppositeColor(playerColor))
    /\ passCount' = passCount + 1
    /\ myTurn' = TurnAfterHumanMove
    /\ callPre' = NoCall
    /\ loc' = [loc EXCEPT ![UI].passCount = passCount',
                          ![UI].copy = copyBoardState(boardState')]
    /\ mu' = Unlock(UI)
    /\ pc' = [pc EXCEPT ![UI] = "Pass_cb"]
    /\ UNCHANGED <<stdinOpen, gameOver,
                   playerColor, moveCallback, endCallback, gnugo, uiBoardState,
                   cbLog, endLog, ret, nSpawned, sgfVars>>

\* Pass: g.moveCallback(-1, -1, ...), then the double-pass test
PassCallback ==
    /\ pc[UI] = "Pass_cb"
    /\ FireMove(UI, -1, -1, playerColor, loc[UI].copy)
    /\ pc' = [pc EXCEPT ![UI] = IF loc[UI].passCount >= 2 THEN "hge_lock" ELSE "Pass_go"]
    /\ UNCHANGED <<io, err, loc, mu, stdinOpen, boardState, myTurn, passCount, gameOver,
                   playerColor, moveCallback, endCallback, gnugo,
                   endLog, ret, callPre, nSpawned, gnugoPrev, sgfVars>>

\* ---------------------------------------------------------------- triggerEngineMove
\* The function returns: the goroutine ends (a task), or the call returns nil (UI).
Finish(p, t) == [p EXCEPT ![t] = IF t = UI THEN "returned" ELSE "off"]

\* (mutation) the gameOver test at the head of triggerEngineMove is missing
TemLock_NoCheck(t) ==
    /\ pc[t] = "tem_start" /\ mu = -1
    /\ pc' = [pc EXCEPT ![t] = "tem_genmove"] /\ mu' = t
    /\ UNCHANGED <<io, err, loc, stdinOpen, boardState, myTurn, passCount, gameOver,
                   playerColor, moveCallback, endCallback, gnugo, uiBoardState,
                   cbLog, endLog, ret, callPre, nSpawned, gnugoPrev, sgfVars>>

\* g.mu.Lock(); if g.gameOver { unlock; return }
TemLock(t) ==
    /\ pc[t] = "tem_start" /\ mu = -1
    /\ IF gameOver
       THEN pc' = Finish(pc, t) /\ mu' = Unlock(t)
       ELSE pc' = [pc EXCEPT ![t] = "tem_genmove"] /\ mu' = t
    /\ UNCHANGED <<io, err, loc, stdinOpen, boardState, myTurn, passCount, gameOver,
                   playerColor, moveCallback, endCallback, gnugo, uiBoardState,
                   cbLog, endLog, ret, callPre, nSpawned, gnugoPrev, sgfVars>>

\* genmove fails, or its reply is not a vertex gtpToPos decodes: unlock and return
TemGenmoveFailed(t) ==
    /\ CanReply(t, "tem_genmove")
    /\ \E failed \in BOOLEAN :
          \/ failed
          \/ CanSucceed(t) /\ gtpToPos(BADW, BoardSize).err
    /\ io' = [io EXCEPT ![t] = "idle"]
    /\ err' = [err EXCEPT ![t] = TRUE]
    /\ mu' = Unlock(t)
    /\ pc' = Finish(pc, t)
    /\ UNCHANGED <<loc, stdinOpen, boardState, myTurn, passCount, gameOver,
                   playerColor, moveCallback, endCallback, gnugo, uiBoardState,
                   cbLog, endLog, ret, callPre, nSpawned, gnugoPrev, sgfVars>>

\* (mutation) the winner of a resignation is the engine's colour
ResignOutcome_Swapped(color) ==
    IF color = 2 THEN "Black wins by resignation" ELSE "White wins by resignation"

\* The outcome text of a resignation of the engine.
ResignOutcome(color) ==
    IF color = 2 THEN "White wins by resignation" ELSE "Black wins by resignation"

\* genmove answers "resign"
TemResign(t) ==
    /\ CanReply(t, "tem_genmove") /\ CanSucceed(t)
    /\ io' = [io EXCEPT ![t] = "idle"]
    /\ err' = [err EXCEPT ![t] = FALSE]
    /\ gameOver' = TRUE
    /\ boardState' = [boardState EXCEPT !.Phase = "finished",
                                        !.Outcome = ResignOutcome(playerColor)]
    /\ loc' = [loc EXCEPT ![t].outcome = boardState'.Outcome]
    /\ mu' = Unlock(t)
    /\ pc' = [pc EXCEPT ![t] = "tem_endcb"]
    /\ UNCHANGED <<stdinOpen, myTurn, passCount,
                   playerColor, moveCallback, endCallback, gnugo, uiBoardState,
                   cbLog, endLog, ret, callPre, nSpawned, gnugoPrev, sgfVars>>

\* after a resignation: g.endCallback(outcome)
TemEndCallback(t) ==
    /\ pc[t] = "tem_endcb"
    /\ FireEnd(t, loc[t].outcome)
    /\ pc' = Finish(pc, t)
    /\ loc' = [loc EXCEPT ![t] = EmptyLoc]
    /\ UNCHANGED <<io, err, mu, stdinOpen, boardState, myTurn, passCount, gameOver,
                   playerColor, moveCallback, endCallback, gnugo,
                   cbLog, ret, callPre, nSpawned, gnugoPrev, sgfVars>>

\* genmove answers "pass"
TemPass(t) ==
    /\ CanReply(t, "tem_genmove") /\ CanSucceed(t)
    /\ gnugoPrev' = Append(gnugoPrev, [board |-> gnugo, move |-> PASSW])
    /\ io' = [io EXCEPT ![t] = "idle"]
    /\ err' = [err EXCEPT ![t] = FALSE]
    /\ boardState' = ApplyPass(boardState, playerColor)
    /\ passCount' = passCount + 1
    /\ myTurn' = TRUE
    /\ loc' = [loc EXCEPT ![t].passCount = passCount',
                          ![t].copy = copyBoardState(boardState')]
    /\ mu' = Unlock(t)
    /\ pc' = [pc EXCEPT ![t] = "tem_cbPass"]
    /\ UNCHANGED <<stdinOpen, gameOver,
                   playerColor, moveCallback, endCallback, gnugo, uiBoardState,
                   cbLog, endLog, ret, callPre, nSpawned, sgfVars>>

\* after the engine's pass: the move callback, then the double-pass test
TemPassCallback(t) ==
    /\ pc[t] = "tem_cbPass"
    /\ FireMove(t, -1, -1, oppositeColor(playerColor), loc[t].copy)
    /\ pc' = IF loc[t].passCount >= 2 THEN [pc EXCEPT ![t] = "hge_lock"] ELSE Finish(pc, t)
    /\ loc' = [loc EXCEPT ![t] = IF loc[t].passCount >= 2 THEN @ ELSE EmptyLoc]
    /\ UNCHANGED <<io, err, mu, stdinOpen, boardState, myTurn, passCount, gameOver,
                   playerColor, moveCallback, endCallback, gnugo,
                   endLog, ret, callPre, nSpawned, gnugoPrev, sgfVars>>

\* genmove answers a vertex: GnuGo has placed the stone; the optimistic update
TemStone(t) ==
    /\ CanReply(t, "tem_genmove") /\ CanSucceed(t)
    /\ \E p \in { q \in EnginePoints : gnugo[q[2]][q[1]] = 0 } :
          LET engineColor == oppositeColor(playerColor)
              d == gtpToPos(PointVertex(p[1], p[2]), BoardSize)
          IN  /\ ~d.err
              /\ gnugo' \in GnuGoPlace(gnugo, p[1], p[2], gtpToColor(colorToGTP(engineColor)))
              /\ boardState' = ApplyStone(boardState, d.x, d.y, engineColor, playerColor)
              /\ loc' = [loc EXCEPT ![t].x = d.x, ![t].y = d.y]
              /\ gnugoPrev' = Append(gnugoPrev, [board |-> gnugo, move |-> PointVertex(p[1], p[2])])
    /\ io' = [io EXCEPT ![t] = "idle"]
    /\ err' = [err EXCEPT ![t] = FALSE]
    /\ passCount' = 0
    /\ pc' = [pc EXCEPT ![t] = "tem_black"]
    /\ UNCHANGED <<mu, stdinOpen, myTurn, gameOver,
                   playerColor, moveCallback, endCallback, uiBoardState,
                   cbLog, endLog, ret, callPre, nSpawned, sgfVars>>

\* the white stones arrive, the grid is rebuilt, the turn goes to the human,
\* the copy is taken and the lock released
TemFinish(t) ==
    /\ CanReply(t, "tem_white")
    /\ io' = [io EXCEPT ![t] = "idle"]
    /\ \E ok \in {b \in BOOLEAN : b => CanSucceed(t)} :
          /\ boardState' = updateBoardFromGnuGo(boardState, loc[t].black,
                                                IF ok THEN ListStones(gnugo, 2) ELSE {})
          /\ err' = [err EXCEPT ![t] = ~ok]
    /\ myTurn' = TRUE
    /\ loc' = [loc EXCEPT ![t].copy = copyBoardState(boardState')]
    /\ mu' = Unlock(t)
    /\ pc' = [pc EXCEPT ![t] = "tem_cbMove"]
    /\ UNCHANGED <<stdinOpen, passCount, gameOver,
                   playerColor, moveCallback, endCallback, gnugo, uiBoardState,
                   cbLog, endLog, ret, callPre, nSpawned, gnugoPrev, sgfVars>>

\* g.moveCallback(x, y, engineColor, boardStateCopy)
TemMoveCallback(t) ==
    /\ pc[t] = "tem_cbMove"
    /\ FireMove(t, loc[t].x, loc[t].y, oppositeColor(playerColor), loc[t].copy)
    /\ err' = [err EXCEPT ![t] = FALSE]
    /\ pc' = Finish(pc, t)
    /\ loc' = [loc EXCEPT ![t] = EmptyLoc]
    /\ UNCHANGED <<io, mu, stdinOpen, boardState, myTurn, passCount, gameOver,
                   playerColor, moveCallback, endCallback, gnugo,
                   endLog, ret, callPre, nSpawned, gnugoPrev, sgfVars>>

\* ---------------------------------------------------------------- handleGameEnd
\* g.mu.Lock(); g.gameOver = true; Phase = "finished"
HandleGameEndLock(t) ==
    /\ pc[t] = "hge_lock" /\ mu = -1
    /\ mu' = t
    /\ gameOver' = TRUE
    /\ boardState' = [boardState EXCEPT !.Phase = "finished"]
    /\ pc' = [pc EXCEPT ![t] = "hge_score"]
    /\ UNCHANGED <<io, err, loc, stdinOpen, myTurn, passCount,
                   playerColor, moveCallback, endCallback, gnugo, uiBoardState,
                   cbLog, endLog, ret, callPre, nSpawned, gnugoPrev, sgfVars>>

\* final_score: the score, or "Game ended" when the request fails; unlock
HandleGameEndScore(t) ==
    /\ CanReply(t, "hge_score")
    /\ io' = [io EXCEPT ![t] = "idle"]
    /\ \E score \in {"Game ended"} \cup {s \in Scores : CanSucceed(t)} :
          /\ boardState' = [boardState EXCEPT !.Outcome = score]
          /\ err' = [err EXCEPT ![t] = (score = "Game ended")]
    /\ loc' = [loc EXCEPT ![t].outcome = boardState'.Outcome]
    /\ mu' = Unlock(t)
    /\ pc' = [pc EXCEPT ![t] = "hge_cb"]
    /\ UNCHANGED <<stdinOpen, myTurn, passCount, gameOver,
                   playerColor, moveCallback, endCallback, gnugo, uiBoardState,
                   cbLog, endLog, ret, callPre, nSpawned, gnugoPrev, sgfVars>>

\* g.endCallback(outcome); the caller returns
HandleGameEndCallback(t) ==
    /\ pc[t] = "hge_cb"
    /\ FireEnd(t, loc[t].outcome)
    /\ err' = [err EXCEPT ![t] = FALSE]
    /\ pc' = Finish(pc, t)
    /\ loc' = [loc EXCEPT ![t] = EmptyLoc]
    /\ ret' = IF t = UI THEN "ok" ELSE ret
    /\ UNCHANGED <<io, mu, stdinOpen, boardState, myTurn, passCount, gameOver,
                   playerColor, moveCallback, endCallback, gnugo,
                   cbLog, callPre, nSpawned, gnugoPrev, sgfVars>>

\* ---------------------------------------------------------------- Close
\* Close(): sendCommand("quit") without the lock
CloseStart ==
    /\ pc[UI] = "idle" /\ stdinOpen
    /\ pc' = [pc EXCEPT ![UI] = "Close_quit"]
    /\ UNCHANGED <<io, err, loc, mu, stdinOpen, boardState, myTurn, passCount, gameOver,
                   playerColor, moveCallback, endCallback, gnugo, uiBoardState,
                   cbLog, endLog, ret, callPre, nSpawned, gnugoPrev, sgfVars>>

\* the reply to quit (or its failure), then g.stdin.Close() and cmd.Wait()
CloseFinish ==
    /\ CanReply(UI, "Close_quit")
    /\ io' = [io EXCEPT ![UI] = "idle"]
    /\ \E ok \in {b \in BOOLEAN : b => CanSucceed(UI)} : err' = [err EXCEPT ![UI] = ~ok]
    /\ stdinOpen' = FALSE
    /\ pc' = [pc EXCEPT ![UI] = "closed"]
    /\ UNCHANGED <<loc, mu, boardState, myTurn, passCount, gameOver,
                   playerColor, moveCallback, endCallback, gnugo, uiBoardState,
                   cbLog, endLog, ret, callPre, nSpawned, gnugoPrev, sgfVars>>

\* ---------------------------------------------------------------- specification
Next ==
    \/ \E t \in Threads : SendCommandWrite(t)
    \/ ConnectStart \/ ConnectSetup \/ ConnectKomi
    \/ UiOnMove \/ UiOnGameEnd \/ UiGetBoardState
    \/ PlayMoveLock \/ PassLock \/ TurnCheck
    \/ PlayMoveRejected \/ PlayMoveAccepted \/ PlayMoveFinish \/ PlayMoveCallback
    \/ StartEngineTask \/ UiReturn
    \/ PassRejected \/ PassAccepted \/ PassCallback
    \/ \E t \in Threads : ListBlack(t)
    \/ \E t \in Tasks : TemLock(t)
    \/ \E t \in Tasks : TemGenmoveFailed(t)
    \/ \E t \in Tasks : TemResign(t)
    \/ \E t \in Tasks : TemEndCallback(t)
    \/ \E t \in Tasks : TemPass(t)
    \/ \E t \in Tasks : TemPassCallback(t)
    \/ \E t \in Tasks : TemStone(t)
    \/ \E t \in Tasks : TemFinish(t)
    \/ \E t \in Tasks : TemMoveCallback(t)
    \/ \E t \in Threads : HandleGameEndLock(t)
    \/ \E t \in Threads : HandleGameEndScore(t)
    \/ \E t \in Threads : HandleGameEndCallback(t)
    \/ CloseStart \/ CloseFinish

Spec == Init /\ [][Next]_vars

\* ---------------------------------------------------------------- progress
\* The steps of a running call of the UI thread, after the call has started.
UICallStep ==
    \/ SendCommandWrite(UI)
    \/ TurnCheck
    \/ PlayMoveRejected \/ PlayMoveAccepted \/ PlayMoveFinish \/ PlayMoveCallback
    \/ StartEngineTask \/ UiReturn
    \/ PassRejected \/ PassAccepted \/ PassCallback
    \/ ListBlack(UI)
    \/ HandleGameEndLock(UI) \/ HandleGameEndScore(UI) \/ HandleGameEndCallback(UI)

\* The steps of an engine task whose genmove request gets a reply it can decode.
TaskStep(t) ==
    \/ SendCommandWrite(t)
    \/ TemLock(t)
    \/ TemResign(t) \/ TemEndCallback(t)
    \/ TemPass(t) \/ TemPassCallback(t)
    \/ TemStone(t) \/ ListBlack(t) \/ TemFinish(t) \/ TemMoveCallback(t)
    \/ HandleGameEndLock(t) \/ HandleGameEndScore(t) \/ HandleGameEndCallback(t)

\* The session while GnuGo runs and answers genmove: no Close, no failed genmove.
NextAnswered ==
    \/ ConnectStart \/ ConnectSetup \/ ConnectKomi
    \/ UiOnMove \/ UiOnGameEnd \/ UiGetBoardState
    \/ PlayMoveLock \/ PassLock
    \/ UICallStep
    \/ \E t \in Tasks : TaskStep(t)

\* Every goroutine that can take a step infinitely often takes one: the Go
\* scheduler runs every runnable goroutine, and sync.Mutex hands the lock to a
\* waiter that has been kept out (starvation mode). The human need not move.
SpecProgress ==
    /\ Init /\ [][NextAnswered]_vars
    /\ SF_vars(UICallStep)
    /\ \A t \in Tasks : SF_vars(TaskStep(t))


\* ---------------------------------------------------------------- Undo
\* GTPEngine.Undo, as the specification describes it: under the lock, the three
\* precondition tests, two "undo" commands, the move number and the side to
\* move, the resynchronisation by updateBoardFromGnuGo, and the last move
\* asked from GnuGo.
UndoSites == {"Undo_first", "Undo_second", "Undo_black", "Undo_white", "Undo_last"}

UndoErrors == {"game is over", "not your turn", "no moves to undo", "undo failed"}

\* The UI thread starts an Undo that will be refused at any time, and one that
\* can succeed once it has no move left to start and few engine moves were started.
MayUndo ==
    \/ gameOver \/ ~myTurn \/ boardState.MoveNumber < 2
    \/ (boardState.MoveNumber >= MaxMoves /\ nSpawned <= MaxTasks)

\* sendCommand in Undo: the command is written
UndoSendCommandWrite ==
    /\ pc[UI] \in UndoSites /\ io[UI] = "idle" /\ stdinOpen
    /\ io' = [io EXCEPT ![UI] = "sent"]
    /\ UNCHANGED <<pc, err, loc, mu, stdinOpen, boardState, myTurn, passCount, gameOver,
                   playerColor, moveCallback, endCallback, gnugo, uiBoardState,
                   cbLog, endLog, ret, callPre, nSpawned, gnugoPrev, sgfVars>>

\* Undo(): g.mu.Lock()
UndoLock ==
    /\ pc[UI] = "idle" /\ mu = -1 /\ MayUndo
    /\ mu' = UI
    /\ loc' = [loc EXCEPT ![UI] = EmptyLoc]
    /\ err' = [err EXCEPT ![UI] = FALSE]
    /\ pc' = [pc EXCEPT ![UI] = "Undo_locked"]
    /\ callPre' = CallSnapshot
    /\ UNCHANGED <<io, stdinOpen, boardState, myTurn, passCount, gameOver,
                   playerColor, moveCallback, endCallback, gnugo, uiBoardState,
                   cbLog, endLog, ret, nSpawned, gnugoPrev, sgfVars>>

\* the tests: game over, not the human's turn, fewer than two moves
UndoCheck ==
    /\ pc[UI] = "Undo_locked"
    /\ IF gameOver THEN ErrorReturn(UI, "game is over")
       ELSE IF ~myTurn THEN ErrorReturn(UI, "not your turn")
       ELSE IF boardState.MoveNumber < 2 THEN ErrorReturn(UI, "no moves to undo")
       ELSE /\ pc' = [pc EXCEPT ![UI] = "Undo_first"]
            /\ UNCHANGED <<mu, ret, loc, callPre>>
    /\ UNCHANGED <<io, err, stdinOpen, boardState, myTurn, passCount, gameOver,
                   playerColor, moveCallback, endCallback, gnugo, uiBoardState,
                   cbLog, endLog, nSpawned, gnugoPrev, sgfVars>>

\* an "undo" command fails: GnuGo has no move to take back, or the exchange fails
UndoFailed ==
    /\ \E site \in {"Undo_first", "Undo_second"} : CanReply(UI, site)
    /\ io' = [io EXCEPT ![UI] = "idle"]
    /\ err' = [err EXCEPT ![UI] = TRUE]
    /\ ErrorReturn(UI, "undo failed")
    /\ UNCHANGED <<stdinOpen, boardState, myTurn, passCount, gameOver,
                   playerColor, moveCallback, endCallback, gnugo, uiBoardState,
                   cbLog, endLog, nSpawned, gnugoPrev, sgfVars>>

\* the first "undo" succeeds: GnuGo takes back the engine's reply
UndoFirst ==
    /\ CanReply(UI, "Undo_first") /\ CanSucceed(UI) /\ Len(gnugoPrev) > 0
    /\ gnugo' = gnugoPrev[Len(gnugoPrev)].board
    /\ gnugoPrev' = SubSeq(gnugoPrev, 1, Len(gnugoPrev) - 1)
    /\ io' = [io EXCEPT ![UI] = "idle"]
    /\ err' = [err EXCEPT ![UI] = FALSE]
    /\ pc' = [pc EXCEPT ![UI] = "Undo_second"]
    /\ UNCHANGED <<loc, mu, stdinOpen, boardState, myTurn, passCount, gameOver,
                   playerColor, moveCallback, endCallback, uiBoardState,
                   cbLog, endLog, ret, callPre, nSpawned, sgfVars>>

\* the second "undo" succeeds: GnuGo takes back the human's move; two moves
\* fewer, and the human to move
UndoSecond ==
    /\ CanReply(UI, "Undo_second") /\ CanSucceed(UI) /\ Len(gnugoPrev) > 0
    /\ gnugo' = gnugoPrev[Len(gnugoPrev)].board
    /\ gnugoPrev' = SubSeq(gnugoPrev, 1, Len(gnugoPrev) - 1)
    /\ boardState' = [boardState EXCEPT !.MoveNumber = @ - 2, !.PlayerToMove = playerColor]
    /\ io' = [io EXCEPT ![UI] = "idle"]
    /\ err' = [err EXCEPT ![UI] = FALSE]
    /\ pc' = [pc EXCEPT ![UI] = "Undo_black"]
    /\ UNCHANGED <<loc, mu, stdinOpen, myTurn, passCount, gameOver,
                   playerColor, moveCallback, endCallback, uiBoardState,
                   cbLog, endLog, ret, callPre, nSpawned, sgfVars>>

\* updateBoardFromGnuGo in Undo: blackStones, _ := sendCommand("list_stones black")
UndoListBlack ==
    /\ CanReply(UI, "Undo_black")
    /\ \E ok \in {b \in BOOLEAN : b => CanSucceed(UI)} :
          /\ loc' = [loc EXCEPT ![UI].black = IF ok THEN ListStones(gnugo, 1) ELSE {}]
          /\ err' = [err EXCEPT ![UI] = ~ok]
    /\ io' = [io EXCEPT ![UI] = "idle"]
    /\ pc' = [pc EXCEPT ![UI] = "Undo_white"]
    /\ UNCHANGED <<mu, stdinOpen, boardState, myTurn, passCount, gameOver,
                   playerColor, moveCallback, endCallback, gnugo, uiBoardState,
                   cbLog, endLog, ret, callPre, nSpawned, gnugoPrev, sgfVars>>

\* updateBoardFromGnuGo in Undo: the white stones arrive and the grid is rebuilt
UndoListWhite ==
    /\ CanReply(UI, "Undo_white")
    /\ \E ok \in {b \in BOOLEAN : b => CanSucceed(UI)} :
          /\ boardState' = updateBoardFromGnuGo(boardState, loc[UI].black,
                                                IF ok THEN ListStones(gnugo, 2) ELSE {})
          /\ err' = [err EXCEPT ![UI] = ~ok]
    /\ io' = [io EXCEPT ![UI] = "idle"]
    /\ pc' = [pc EXCEPT ![UI] = "Undo_last"]
    /\ UNCHANGED <<loc, mu, stdinOpen, myTurn, passCount, gameOver,
                   playerColor, moveCallback, endCallback, gnugo, uiBoardState,
                   cbLog, endLog, ret, callPre, nSpawned, gnugoPrev, sgfVars>>

\* last_move: the last move GnuGo still holds, or none; unlock and return nil
UndoFinish ==
    /\ CanReply(UI, "Undo_last")
    /\ \E ok \in {b \in BOOLEAN : b => (CanSucceed(UI) /\ Len(gnugoPrev) > 0)} :
          LET d == IF ok THEN gtpToPos(gnugoPrev[Len(gnugoPrev)].move, BoardSize)
                   ELSE [x |-> -1, y |-> -1, err |-> FALSE]
          IN  boardState' = [boardState EXCEPT !.LastMove =
                                IF d.err THEN [X |-> -1, Y |-> -1] ELSE [X |-> d.x, Y |-> d.y]]
    /\ io' = [io EXCEPT ![UI] = "idle"]
    /\ err' = [err EXCEPT ![UI] = FALSE]
    /\ mu' = Unlock(UI)
    /\ ret' = "ok"
    /\ pc' = [pc EXCEPT ![UI] = "returned"]
    /\ loc' = [loc EXCEPT ![UI] = EmptyLoc]
    /\ callPre' = NoCall
    /\ UNCHANGED <<stdinOpen, myTurn, passCount, gameOver,
                   playerColor, moveCallback, endCallback, gnugo, uiBoardState,
                   cbLog, endLog, nSpawned, gnugoPrev, sgfVars>>

UndoNext ==
    \/ Next
    \/ UndoSendCommandWrite \/ UndoLock \/ UndoCheck \/ UndoFailed
    \/ UndoFirst \/ UndoSecond \/ UndoListBlack \/ UndoListWhite \/ UndoFinish

\* the session with Undo among the calls of the UI thread
SpecUndo == Init /\ [][UndoNext]_vars

\* ---------------------------------------------------------------- planning: calls on the tree
\* the variables of the engine session
sessionVars == <<pc, io, err, loc, mu, stdinOpen, boardState, myTurn, passCount, gameOver,
                 playerColor, moveCallback, endCallback, gnugo, uiBoardState, cbLog,
                 endLog, ret, callPre, nSpawned, gnugoPrev>>
recVars == <<rec, disk, recCall>>

\* the result of a call is kept with the tree it leaves
Called(op, r) ==
    /\ tree' = r.tree
    /\ treeCall' = [op |-> op, ret |-> r.ret]
    /\ UNCHANGED <<sessionVars, recVars, libVars>>

\* a query leaves the tree alone
Queried(op, value) ==
    /\ treeCall' = [op |-> op, ret |-> value]
    /\ UNCHANGED <<tree, sessionVars, recVars, libVars>>

\* t.AddMove(move); a new node is allocated only within the bound
TreeAddMove ==
    \E move \in TreeMoves :
       /\ AddMove(tree, move).ret <= MaxNodes
       /\ Called("AddMove", AddMove(tree, move))

TreeBack == Called("Back", Back(tree))

TreeForward == \E idx \in ForwardArgs : Called("Forward", Forward(tree, idx))

TreeNextVariation == Called("NextVariation", NextVariation(tree))

TreePrevVariation == Called("PrevVariation", PrevVariation(tree))

TreePathFromRoot == Queried("PathFromRoot", PathFromRoot(tree))

TreeNumVariations == Queried("NumVariations", NumVariations(tree))

TreeVariationIndex == Queried("VariationIndex", VariationIndex(tree))

TreeHasChildren == Queried("HasChildren", HasChildren(tree))

TreeNext ==
    \/ TreeAddMove \/ TreeBack \/ TreeForward
    \/ TreeNextVariation \/ TreePrevVariation
    \/ TreePathFromRoot \/ TreeNumVariations \/ TreeVariationIndex \/ TreeHasChildren

\* planning mode: a fresh tree and calls on it; the session is left alone
TreeInit == Init /\ playerColor = 1

SpecTree == TreeInit /\ [][TreeNext]_vars


\* ---------------------------------------------------------------- game record: calls
\* The moves, boards, counts the UI hands to the record.
RecordMoves == {<<1, 0, 1>>, <<-1, -1, 2>>}
SetupBoards == {[y \in Idx |-> [x \in Idx |-> IF <<x, y>> = <<1, 0>> THEN 1
                                             ELSE IF <<x, y>> = <<0, 1>> THEN 2 ELSE 0]]}
UndoCounts == {1, MaxRecMoves + 1}
\* bytes a failing WriteString has written
ShortWrites == {2}
\* the outcomes the game-end callback hands to SetResult
RecordOutcomes == {OutcomeScore, OutcomeResigned}

RECURSIVE ScanBoard(_, _, _)
\* the loops of AddSetupPosition: the points holding color, rows first;
\* k counts the points scanned so far
ScanBoard(board, color, k) ==
    IF k = BoardSize * BoardSize THEN <<>>
    ELSE LET x == k % BoardSize
             y == k \div BoardSize
         IN  (IF board[y][x] = color THEN <<sgfCoord(x, y)>> ELSE <<>>)
             \o ScanBoard(board, color, k + 1)

\* File.WriteString at the handle's offset; a hole is filled with zero bytes
WriteAt(content, offset, data) ==
    LET padded == IF Len(content) < offset
                  THEN content \o [i \in 1 .. (offset - Len(content)) |-> "NUL"]
                  ELSE content
    IN  SubSeq(padded, 1, offset) \o data
        \o SubSeq(padded, offset + Len(data) + 1, Len(padded))

\* (mutation) the Seek to the start of the file is missing
Seek_Missing(r) == r

\* r.file.Seek(0, 0)
Seek(r) == [r EXCEPT !.offset = 0]

RecCallMay == recCall.at = "idle" /\ rec.made

\* (mutation) flush without its test of the closed file
BeginFlush_NoClosedTest(op, arg, r) ==
    /\ rec' = r
    /\ recCall' = [op |-> op, arg |-> arg, at |-> "seek", err |-> FALSE,
                   content |-> Document(r), before |-> disk.content]

\* the head of flush with the record r the call has built: the closed-file
\* test, then the text to write; arg is the count UndoMoves was given
BeginFlush(op, arg, r) ==
    /\ rec' = r
    /\ recCall' = IF r.file = "nil"
                  THEN [op |-> op, arg |-> arg, at |-> "returned", err |-> (op # "Close"),
                        content |-> <<>>, before |-> disk.content]
                  ELSE [op |-> op, arg |-> arg, at |-> "seek", err |-> FALSE,
                        content |-> Document(r), before |-> disk.content]

\* NewGameRecord: MkdirAll and os.Create, the record, then flush
RecNewGameRecord ==
    /\ recCall.at = "idle" /\ ~rec.made /\ ~disk.exists
    /\ \E created \in BOOLEAN :
          IF created
          THEN /\ disk' = [exists |-> TRUE, content |-> <<>>]
               /\ BeginFlush("NewGameRecord", 0,
                             GameRecord(BoardSize, KomiTenths, playerColor, EngineLevel))
          ELSE /\ recCall' = [op |-> "NewGameRecord", arg |-> 0, at |-> "returned", err |-> TRUE,
                              content |-> <<>>, before |-> <<>>]
               /\ UNCHANGED <<rec, disk>>
    /\ UNCHANGED <<sessionVars, tree, treeCall, libVars>>

RecAddMove ==
    /\ RecCallMay /\ Len(rec.moves) < MaxRecMoves
    /\ \E m \in RecordMoves :
          BeginFlush("AddMove", 0, [rec EXCEPT !.moves = Append(@, MoveNode(m[1], m[2], m[3]))])
    /\ UNCHANGED <<disk, sessionVars, tree, treeCall, libVars>>

RecAddSetupPosition ==
    /\ RecCallMay
    /\ \E board \in SetupBoards :
          BeginFlush("AddSetupPosition", 0,
                     [rec EXCEPT !.setupBlack = ScanBoard(board, 1, 0),
                                 !.setupWhite = ScanBoard(board, 2, 0)])
    /\ UNCHANGED <<disk, sessionVars, tree, treeCall, libVars>>

\* (mutation) UndoMoves drops every move
UndoMoves_All(r, count) == [r EXCEPT !.moves = <<>>]

\* UndoMoves: the record without its last count moves, count clamped to their number
UndoMoves(r, count) ==
    LET n == IF count > Len(r.moves) THEN Len(r.moves) ELSE count
    IN  [r EXCEPT !.moves = SubSeq(@, 1, Len(@) - n)]

RecUndoMoves ==
    /\ RecCallMay
    /\ \E count \in UndoCounts : BeginFlush("UndoMoves", count, UndoMoves(rec, count))
    /\ UNCHANGED <<disk, sessionVars, tree, treeCall, libVars>>

RecSetResult ==
    /\ RecCallMay
    /\ \E outcome \in RecordOutcomes :
          BeginFlush("SetResult", 0, [rec EXCEPT !.Result = parseResult(outcome)])
    /\ UNCHANGED <<disk, sessionVars, tree, treeCall, libVars>>

\* Close: nothing when the file is nil; else flush, whose error is dropped
RecClose ==
    /\ RecCallMay
    /\ BeginFlush("Close", 0, rec)
    /\ UNCHANGED <<disk, sessionVars, tree, treeCall, libVars>>

\* the end of flush inside its caller: NewGameRecord closes the file and gives
\* up the record on an error; Close closes the file and sets it to nil
FlushEnd(r, failed) ==
    /\ rec' = IF recCall.op = "NewGameRecord" /\ failed THEN NoRecord
              ELSE IF recCall.op = "Close" THEN [r EXCEPT !.file = "nil"]
              ELSE r
    /\ recCall' = [recCall EXCEPT !.at = "returned",
                                  !.err = (failed /\ recCall.op # "Close")]

Flushing == {"seek", "truncate", "write", "sync"}

FlushSeek ==
    /\ recCall.at = "seek"
    /\ \E ok \in BOOLEAN :
          IF ok THEN rec' = Seek(rec) /\ recCall' = [recCall EXCEPT !.at = "truncate"]
          ELSE FlushEnd(rec, TRUE)
    /\ UNCHANGED <<disk, sessionVars, tree, treeCall, libVars>>

FlushTruncate ==
    /\ recCall.at = "truncate"
    /\ \E ok \in BOOLEAN :
          IF ok THEN /\ disk' = [disk EXCEPT !.content = <<>>]
                     /\ recCall' = [recCall EXCEPT !.at = "write"]
                     /\ UNCHANGED rec
          ELSE FlushEnd(rec, TRUE) /\ UNCHANGED disk
    /\ UNCHANGED <<sessionVars, tree, treeCall, libVars>>

FlushWrite ==
    /\ recCall.at = "write"
    /\ \E n \in ShortWrites \cup {Len(recCall.content)} :
          LET data == SubSeq(recCall.content, 1, n)
              r == [rec EXCEPT !.offset = @ + n]
          IN  /\ disk' = [disk EXCEPT !.content = WriteAt(@, rec.offset, data)]
              /\ IF n = Len(recCall.content)
                 THEN rec' = r /\ recCall' = [recCall EXCEPT !.at = "sync"]
                 ELSE FlushEnd(r, TRUE)
    /\ UNCHANGED <<sessionVars, tree, treeCall, libVars>>

FlushSync ==
    /\ recCall.at = "sync"
    /\ \E ok \in BOOLEAN : FlushEnd(rec, ~ok)
    /\ UNCHANGED <<disk, sessionVars, tree, treeCall, libVars>>

\* the call has returned to the UI
RecReturn ==
    /\ recCall.at = "returned"
    /\ recCall' = NoRecCall
    /\ UNCHANGED <<rec, disk, sessionVars, tree, treeCall, libVars>>

RecNext ==
    \/ RecNewGameRecord \/ RecAddMove \/ RecAddSetupPosition \/ RecUndoMoves
    \/ RecSetResult \/ RecClose
    \/ FlushSeek \/ FlushTruncate \/ FlushWrite \/ FlushSync \/ RecReturn

\* a recording: no record yet and calls on it; the session is left alone
RecInit == Init /\ playerColor = 1

SpecRecord == RecInit /\ [][RecNext]_vars

\* ---------------------------------------------------------------- codec: calls
\* the board sizes of the protocol, the coordinates handed to posToGTP (the
\* board's and one beyond on each side), and the texts handed to gtpToPos
ProtocolSizes == 1 .. 19
ColumnTexts == {"A", "H", "I", "J", "T", "U", "a", "i", "@", "1"}
RowTexts == {<<"0">>, <<"1">>, <<"5">>, <<"1", "9">>, <<"2", "0">>, <<"+", "5">>,
             <<"-", "1">>, <<"x">>, <<"1", "x">>, <<>>}
VertexTexts ==
    { <<c>> \o r : c \in ColumnTexts, r \in RowTexts }
    \cup {<<"P", "A", "S", "S">>, <<"p", "a", "s", "s">>, <<"r", "e", "s", "i", "g", "n">>,
          <<" ", "C", "3", "\n">>, <<>>}

\* a call of a function of the codec or the reader, one in a behaviour, leaves
\* everything else alone
FnCalled(call) ==
    /\ fnCall = NoFnCall
    /\ fnCall' = call
    /\ UNCHANGED <<sessionVars, tree, treeCall, recVars, ui>>

\* posToGTP(x, y, size), printed
CodecEncode ==
    \E size \in ProtocolSizes : \E x, y \in -1 .. size :
       FnCalled([op |-> "posToGTP", arg |-> <<x, y, size>>,
                 out |-> VertexText(posToGTP(x, y, size))])

\* gtpToPos(vertex, size): its three results
CodecDecode ==
    \E size \in ProtocolSizes : \E text \in VertexTexts :
       LET r == gtpToPos(TextVertex(text), size)
       IN  FnCalled([op |-> "gtpToPos", arg |-> <<text, size>>,
                     out |-> <<r.x, r.y, r.err>>])

CodecNext == CodecEncode \/ CodecDecode

CodecInit == Init /\ playerColor = 1

\* calls of the two conversions, the session left alone
SpecCodec == CodecInit /\ [][CodecNext]_vars

\* ---------------------------------------------------------------- parseResult: calls
\* the outcome texts handed to parseResult: the tokens of the record, and
\* sentences put together from a winner, a connective, a margin and an ending
ResultTokens ==
    {<<"?">>, <<"J", "i", "g", "o">>, <<"V", "o", "i", "d">>, <<"0">>, <<"B", "+", "R">>,
     <<"W", "+", "T">>, <<"B", "+", "F">>, <<"W", "+", "?">>, <<"W", "+", "5", ".", "5">>,
     <<"B", "+", "3">>, <<"b", "+", "r">>, <<"B", "+">>, <<"B", "+", "1", ".", "2", ".", "3">>,
     <<" ", "B", "+", "R", "\n">>, <<>>}
ResultWinners ==
    {<<"W", "h", "i", "t", "e", " ", "w", "i", "n", "s">>,
     <<"B", "l", "a", "c", "k", " ", "w", "i", "n", "s">>,
     <<"b", "l", "a", "c", "k", " ", "w", "i", "n", "s">>,
     <<"D", "r", "a", "w">>}
ResultConnectives == {<<" ", "b", "y", " ">>, <<" ", "B", "y", " ", " ">>, <<" ">>, <<>>}
ResultMargins ==
    {<<"5", ".", "5">>, <<"3">>, <<"0", ".", "5">>, <<".">>, <<"1", ".", "2", ".", "3">>,
     <<"x">>, <<"5", "x">>, Resign, Resign \o <<"a", "t", "i", "o", "n">>, TimeWord, Forfeit, <<>>}
ResultEndings == {<<>>, <<" ", "p", "o", "i", "n", "t", "s">>}
ResultTexts ==
    ResultTokens \cup
    { w \o c \o m \o e : w \in ResultWinners, c \in ResultConnectives,
                         m \in ResultMargins, e \in ResultEndings }

\* parseResult(outcome)
ResultParse ==
    \E text \in ResultTexts :
       FnCalled([op |-> "parseResult", arg |-> <<text>>, out |-> parseResult(text)])

ResultNext == ResultParse

ResultInit == Init /\ playerColor = 1

SpecResult == ResultInit /\ [][ResultNext]_vars

\* ---------------------------------------------------------------- reader: calls
\* the boards of BoardSize handed to the reader
ReplayBoards ==
    {b \in [Idx -> [Idx -> 0 .. 2]] :
        Cardinality({p \in Idx \X Idx : b[p[2]][p[1]] # 0}) <= MaxStones}

\* ReplayToEnd, the body of its loop for a move on the board
ReaderReplayMove ==
    /\ fnCall = NoFnCall
    /\ \E board \in ReplayBoards : \E x, y \in Idx : \E color \in {1, 2} :
          FnCalled([op |-> "ReplayMove", arg |-> <<board, x, y, color>>,
                    out |-> ReplayMove(board, BoardSize, x, y, color)])

\* the moves recorded after a setup position: lists of up to two
ReplayMoves == {<<1, 0, 1>>, <<0, 0, 2>>, <<-1, -1, 2>>}
ReplayMoveLists ==
    {<<>>} \cup {<<m>> : m \in ReplayMoves} \cup {<<m, n>> : m, n \in ReplayMoves}

\* the record after NewGameRecord, AddSetupPosition(board) and an AddMove for
\* each of the moves
WrittenRecord(board, moves) ==
    [GameRecord(BoardSize, KomiTenths, 1, EngineLevel)
        EXCEPT !.setupBlack = ScanBoard(board, 1, 0),
               !.setupWhite = ScanBoard(board, 2, 0),
               !.moves = [i \in DOMAIN moves |-> MoveNode(moves[i][1], moves[i][2], moves[i][3])]]

\* ReplayToEnd of the file of a written record; moves are put on the boards
\* of up to two stones
ReaderReplayRecord ==
    /\ fnCall = NoFnCall
    /\ \E board \in ReplayBoards : \E moves \in ReplayMoveLists :
          /\ moves = <<>> \/ Cardinality({p \in Idx \X Idx : board[p[2]][p[1]] # 0}) <= 2
          /\ LET r == ReplayToEnd(Document(WrittenRecord(board, moves)))
             IN  FnCalled([op |-> "ReplayRecord", arg |-> <<board, moves>>,
                           out |-> <<r.board, r.moveCount, r.err, r.panic>>])

\* a written file with a setup position, a move and a pass
WrittenText ==
    Document(WrittenRecord(CHOOSE b \in SetupBoards : TRUE, <<<<1, 0, 1>>, <<-1, -1, 2>>>>))
\* the file of a record whose single move node has the given value
MoveText(value) ==
    SubSeq(WrittenText, 1, Index(WrittenText, <<";", "A">>))
    \o <<";", "B", "[">> \o value \o <<"]", ")", "\n">>

\* files that are not records: cut short before the closing ')',
TruncatedTexts == {SubSeq(WrittenText, 1, k) : k \in 2 .. (Len(WrittenText) - 2)}
\* without the opening "(;",
UnopenedTexts == {<<>>, <<"h", "i">>, Tail(WrittenText), Tail(Tail(WrittenText))}
\* with a move value that is neither empty nor two letters,
BadMoveTexts == {MoveText(<<"a">>), MoveText(<<"a", "b", "c">>), MoveText(<<"1", "2">>)}
\* with a coordinate outside the board
OutsideTexts == {MoveText(<<"z", "z">>), MoveText(<<"a", Letters[BoardSize + 1]>>)}
MalformedTexts == TruncatedTexts \cup UnopenedTexts \cup BadMoveTexts \cup OutsideTexts

\* ReplayToEnd of a file with the given content
ReaderReplayText ==
    /\ fnCall = NoFnCall
    /\ \E text \in MalformedTexts \cup {WrittenText} :
          LET r == ReplayToEnd(text)
          IN  FnCalled([op |-> "ReplayToEnd", arg |-> <<text>>,
                        out |-> <<r.board, r.moveCount, r.err, r.panic>>])

\* ParseHeader of a file with the given content
ReaderParseHeader ==
    /\ fnCall = NoFnCall
    /\ \E text \in MalformedTexts \cup {WrittenText} :
          LET r == ParseHeader(text)
          IN  FnCalled([op |-> "ParseHeader", arg |-> <<text>>,
                        out |-> <<r.BoardSize, r.MoveCount, r.err, FALSE>>])

\* the entries of a directory of games: per time stamp of a file name
\* nothing, a record, a file that holds no record, a file that cannot be read,
\* a directory, or a file with another suffix
ListedStamps == {"1", "2", "3"}
ListedKinds == {"absent", "record", "garbage", "unreadable", "directory", "other"}
ListedEntry(stamp, kind) ==
    [name |-> <<stamp>> \o (IF kind = "other" THEN <<".", "t", "x", "t">>
                            ELSE <<".", "s", "g", "f">>),
     isDir |-> kind = "directory",
     readable |-> kind # "unreadable",
     content |-> IF kind = "record" THEN WrittenText ELSE <<"h", "i">>]
ListedDirectory(kinds) ==
    [exists |-> TRUE, readable |-> TRUE,
     entries |-> {ListedEntry(stamp, kinds[stamp]) :
                     stamp \in {st \in ListedStamps : kinds[st] # "absent"}}]

\* ListGames(dir) of a directory with the given entries
ReaderListGames ==
    /\ fnCall = NoFnCall
    /\ \E kinds \in [ListedStamps -> ListedKinds] :
          LET r == ListGames(ListedDirectory(kinds))
          IN  FnCalled([op |-> "ListGames", arg |-> <<"directory", kinds>>,
                        out |-> <<[i \in DOMAIN r.games |->
                                     <<r.games[i].FileName, r.games[i].BoardSize,
                                       r.games[i].MoveCount>>], r.err>>])

\* ListGames(dir) of a directory that does not exist or cannot be read
ReaderListNoGames ==
    /\ fnCall = NoFnCall
    /\ \E state \in {"missing", "unreadable"} :
          LET r == ListGames([exists |-> state # "missing", readable |-> FALSE, entries |-> {}])
          IN  FnCalled([op |-> "ListGames", arg |-> <<state, <<>>>>,
                        out |-> <<r.games, r.err>>])

ReaderNext ==
    \/ ReaderReplayMove \/ ReaderReplayRecord \/ ReaderReplayText \/ ReaderParseHeader
    \/ ReaderListGames \/ ReaderListNoGames

ReaderInit == Init /\ playerColor = 1

\* calls of the reader, the session left alone
SpecReader == ReaderInit /\ [][ReaderNext]_vars

\* ---------------------------------------------------------------- the board's UI: calls
\* the clicks on the board, and the texts fmt.Sprintf(";%s[%s]") makes
\* of them, each with the colour, x and y parsePlanMove reads from it
PlanPoints == {<<1, 0>>}
PlanMoveTexts ==
    {<<";B[ba]", 1, 1, 0>>, <<";W[ba]", 2, 1, 0>>, <<";B[]", 1, -1, -1>>, <<";W[]", 2, -1, -1>>}
PlanMoveText(color, x, y) ==
    (CHOOSE m \in PlanMoveTexts : m[2] = (IF color = 2 THEN 2 ELSE 1) /\ m[3] = x /\ m[4] = y)[1]
parsePlanMove(move) ==
    LET m == CHOOSE m \in PlanMoveTexts : m[1] = move
    IN  [color |-> m[2], x |-> m[3], y |-> m[4]]

\* the engine is asked only so often
MayCallEngine == ui.engCalls < MaxMoves

\* GnuGo's board after the moves of a history, each <<x, y, color>>
RECURSIVE EngineBoard(_, _, _)
EngineBoard(history, k, board) ==
    IF k > Len(history) THEN board
    ELSE EngineBoard(history, k + 1,
                     IF history[k][1] = -1 THEN board
                     ELSE ReplayMove(board, BoardSize, history[k][1], history[k][2],
                                     history[k][3]))

\* GnuGo accepts a stone on an empty point that has a liberty once it is placed
EngineAccepts(board, x, y, color) ==
    /\ board[y][x] = 0
    /\ hasLiberties(ReplayMove(board, BoardSize, x, y, color), BoardSize, x, y, color)

\* the move callback registered by ConnectEngine
OnMove(u, x, y, color, board) ==
    [u EXCEPT !.Board = board, !.PlayerToMove = oppositeColor(color), !.LastMove = <<x, y>>,
              !.moveHistory = Append(@, <<x, y, color>>),
              !.recMoves = Append(@, MoveNode(x, y, color))]

\* an operation of the UI ends: the fields it leaves, and the tree
UIDone(op, u, t) ==
    /\ ui' = [u EXCEPT !.op = op]
    /\ tree' = t
    /\ UNCHANGED <<sessionVars, treeCall, recVars, fnCall>>

\* rebuildPlanBoard: the path of the tree replayed on the snapshot, from the
\* k-th move on
RECURSIVE RebuildFrom(_, _, _, _)
RebuildFrom(path, k, board, lastMove) ==
    IF k > Len(path) THEN <<board, lastMove>>
    ELSE LET m == parsePlanMove(path[k])
         IN  IF m.x >= 0 /\ m.y >= 0 /\ m.x < BoardSize /\ m.y < BoardSize
             THEN RebuildFrom(path, k + 1, ReplayMove(board, BoardSize, m.x, m.y, m.color),
                              <<m.x, m.y>>)
             ELSE RebuildFrom(path, k + 1, board, <<-1, -1>>)

rebuildPlanBoard(u, t) ==
    LET path == PathFromRoot(t)
        r == RebuildFrom(path, 1, u.prePlanBoard[1], u.prePlanBoard[3])
    IN  [u EXCEPT !.planBoard = r[1], !.planLastMove = r[2],
                  !.planColor = IF Len(path) > 0
                                THEN oppositeColor(parsePlanMove(path[Len(path)]).color)
                                ELSE u.prePlanBoard[2]]

\* TogglePlanningMode: leave with the snapshot restored, or enter with a
\* snapshot, a copy of the board and a new tree
TogglePlanningMode(u, t) ==
    IF u.planningMode
    THEN [ui |-> [u EXCEPT !.Board = u.prePlanBoard[1], !.PlayerToMove = u.prePlanBoard[2],
                           !.LastMove = u.prePlanBoard[3],
                           !.moveHistory = u.prePlanHistory,
                           !.planningMode = FALSE, !.planBoard = <<>>,
                           !.prePlanBoard = <<>>, !.prePlanHistory = <<>>],
          tree |-> NewGameTree]
    ELSE IF u.finished THEN [ui |-> u, tree |-> t]
    ELSE [ui |-> [u EXCEPT !.prePlanBoard = <<u.Board, u.PlayerToMove, u.LastMove>>,
                           !.prePlanHistory = u.moveHistory,
                           !.planBoard = u.Board,
                           !.planColor = IF u.myTurn THEN playerColor
                                         ELSE oppositeColor(playerColor),
                           !.planLastMove = u.LastMove,
                           !.planningMode = TRUE],
          tree |-> NewGameTree]

UITogglePlanningMode ==
    LET r == TogglePlanningMode(ui, tree)
    IN  UIDone("TogglePlanningMode", r.ui, r.tree)

\* PlanPlayMove: the stone and its captures on the plan board, taken back when
\* it has no liberty, else a node of the tree
PlanPlayMove(u, t, x, y) ==
    LET placed == ReplayMove(u.planBoard, BoardSize, x, y, u.planColor)
    IN  IF ~u.planningMode \/ u.planBoard = <<>> THEN [ui |-> u, tree |-> t]
        ELSE IF x < 0 \/ x >= BoardSize \/ y < 0 \/ y >= BoardSize THEN [ui |-> u, tree |-> t]
        ELSE IF u.planBoard[y][x] # 0 THEN [ui |-> u, tree |-> t]
        ELSE IF ~hasLiberties(placed, BoardSize, x, y, u.planColor)
        THEN [ui |-> [u EXCEPT !.planBoard = [placed EXCEPT ![y][x] = 0]], tree |-> t]
        ELSE [ui |-> [u EXCEPT !.planBoard = placed, !.planLastMove = <<x, y>>,
                               !.planColor = oppositeColor(u.planColor)],
              tree |-> AddMove(t, PlanMoveText(u.planColor, x, y)).tree]

\* planPass: a pass node of the tree
planPass(u, t) ==
    IF ~u.planningMode THEN [ui |-> u, tree |-> t]
    ELSE [ui |-> [u EXCEPT !.planLastMove = <<-1, -1>>,
                           !.planColor = oppositeColor(u.planColor)],
          tree |-> AddMove(t, PlanMoveText(u.planColor, -1, -1)).tree]

\* the tree and the planned line stay within the bounds
PlanWithin(r) ==
    /\ Len(r.tree.nodes) <= MaxNodes
    /\ Len(r.ui.prePlanHistory) + Len(PathFromRoot(r.tree)) <= MaxMoves

\* GoBoardUI.PlayMove(x, y): to the plan in planning mode, else to the engine
\* when the game goes on and it is the player's turn; eng.PlayMove sends the
\* move and fires the move callback when GnuGo accepts it
UIPlayMove ==
    \E p \in PlanPoints :
       IF ui.planningMode
       THEN LET r == PlanPlayMove(ui, tree, p[1], p[2])
            IN  PlanWithin(r) /\ UIDone("PlayMove", r.ui, r.tree)
       ELSE IF ui.finished \/ ~ui.myTurn THEN UIDone("PlayMove", ui, tree)
       ELSE /\ MayCallEngine /\ Len(ui.moveHistory) < MaxMoves
            /\ LET called == [ui EXCEPT !.engCalls = @ + 1]
               IN  IF EngineAccepts(ui.Board, p[1], p[2], playerColor)
                   THEN UIDone("PlayMove",
                               [OnMove(called, p[1], p[2], playerColor,
                                       ReplayMove(ui.Board, BoardSize, p[1], p[2], playerColor))
                                   EXCEPT !.myTurn = FALSE,
                                          !.engMoves = Append(@, <<p[1], p[2], playerColor>>)],
                               tree)
                   ELSE UIDone("PlayMove", called, tree)

\* GoBoardUI.Pass()
UIPass ==
    IF ui.planningMode
    THEN LET r == planPass(ui, tree)
         IN  PlanWithin(r) /\ UIDone("Pass", r.ui, r.tree)
    ELSE IF ui.finished \/ ~ui.myTurn THEN UIDone("Pass", ui, tree)
    ELSE /\ MayCallEngine /\ Len(ui.moveHistory) < MaxMoves
         /\ UIDone("Pass", [OnMove([ui EXCEPT !.engCalls = @ + 1], -1, -1, playerColor, ui.Board)
                               EXCEPT !.myTurn = FALSE,
                                      !.engMoves = Append(@, <<-1, -1, playerColor>>)], tree)

\* the engine's reply arrives: the move callback fires on the engine's task
UIEngineMoved ==
    /\ ~ui.myTurn /\ ~ui.finished
    /\ \E p \in EnginePoints \cup {<<-1, -1>>} :
          LET color == oppositeColor(playerColor)
          IN  /\ p[1] # -1 => EngineAccepts(ui.Board, p[1], p[2], color)
              /\ UIDone("OnMove",
                        [OnMove(ui, p[1], p[2], color,
                                IF p[1] = -1 THEN ui.Board
                                ELSE ReplayMove(ui.Board, BoardSize, p[1], p[2], color))
                            EXCEPT !.myTurn = TRUE,
                                   !.engMoves = Append(@, <<p[1], p[2], color>>)], tree)

\* the game ends: the game-end callback fires on the engine's task
UIEngineEnded ==
    /\ ~ui.myTurn /\ ~ui.finished
    /\ UIDone("OnGameEnd", [ui EXCEPT !.finished = TRUE], tree)

\* a list without its last n entries
DropLast(seq, n) == SubSeq(seq, 1, IF Len(seq) > n THEN Len(seq) - n ELSE 0)

\* GoBoardUI.UndoMove(): two calls of eng.Undo, each taking back one move of
\* GnuGo's and each of which may fail, then
\* the history, the recorder and the board
UIUndoMove ==
    IF ui.finished \/ ~ui.myTurn \/ Len(ui.moveHistory) < 2 THEN UIDone("UndoMove", ui, tree)
    ELSE /\ MayCallEngine
         /\ \E first \in {b \in BOOLEAN : b => Len(ui.engMoves) >= 1},
               second \in {b \in BOOLEAN : b => Len(ui.engMoves) >= 2} :
               LET history == SubSeq(ui.moveHistory, 1, Len(ui.moveHistory) - 2)
               IN  IF ~first THEN UIDone("UndoMove", [ui EXCEPT !.engCalls = @ + 1], tree)
                   ELSE IF ~second
                   THEN UIDone("UndoMove", [ui EXCEPT !.engCalls = @ + 2,
                                                      !.engMoves = DropLast(@, 1)], tree)
                   ELSE UIDone("UndoMove",
                               [ui EXCEPT !.engCalls = @ + 2,
                                          !.engMoves = DropLast(@, 2),
                                          !.moveHistory = history,
                                          !.recMoves = UndoMoves([moves |-> @], 2).moves,
                                          !.Board = EngineBoard(DropLast(ui.engMoves, 2), 1,
                                                                EmptyBoard),
                                          !.LastMove = IF Len(history) > 0
                                                       THEN <<history[Len(history)][1],
                                                              history[Len(history)][2]>>
                                                       ELSE <<-1, -1>>], tree)

\* PlanBack, PlanForward, PlanNextVariation, PlanPrevVariation: the call on the
\* tree, then rebuildPlanBoard when it moved
PlanMoved(op, r) ==
    IF ~ui.planningMode \/ ~r.ret THEN UIDone(op, ui, tree)
    ELSE UIDone(op, rebuildPlanBoard(ui, r.tree), r.tree)

UIPlanBack == PlanMoved("PlanBack", Back(tree))
UIPlanForward == PlanMoved("PlanForward", Forward(tree, 0))
UIPlanNextVariation == PlanMoved("PlanNextVariation", NextVariation(tree))
UIPlanPrevVariation == PlanMoved("PlanPrevVariation", PrevVariation(tree))

\* the history and the planned path as one list of moves <<x, y, color>>
AllMoves(u, t) ==
    LET path == PathFromRoot(t)
    IN  u.prePlanHistory
        \o [i \in DOMAIN path |-> <<parsePlanMove(path[i]).x, parsePlanMove(path[i]).y,
                                    parsePlanMove(path[i]).color>>]

\* ResumeFromPlan: the history and the planned path replayed on the engine,
\* then on the recorder; planning mode is left. The board state comes from the
\* engine, whose side to move agrees with its turn flag.
UIResumeFromPlan ==
    IF ~ui.planningMode THEN UIDone("ResumeFromPlan", ui, tree)
    ELSE IF Len(PathFromRoot(tree)) = 0
    THEN UIDone("ResumeFromPlan", TogglePlanningMode(ui, tree).ui, NewGameTree)
    ELSE /\ MayCallEngine
         /\ \E replayed, turn \in BOOLEAN :
               LET allMoves == AllMoves(ui, tree)
                   called == [ui EXCEPT !.engCalls = @ + 1]
                   trimmed == UndoMoves([moves |-> ui.recMoves], Len(ui.prePlanHistory)).moves
               IN  IF ~replayed
                   THEN turn /\ UIDone("ResumeFromPlan", TogglePlanningMode(called, tree).ui,
                                       NewGameTree)
                   ELSE UIDone("ResumeFromPlan",
                               [called EXCEPT
                                  !.moveHistory = allMoves,
                                  !.engMoves = allMoves,
                                  !.recMoves = trimmed \o [i \in DOMAIN allMoves |->
                                                  MoveNode(allMoves[i][1], allMoves[i][2],
                                                           allMoves[i][3])],
                                  !.Board = EngineBoard(allMoves, 1, EmptyBoard),
                                  !.PlayerToMove = IF turn THEN playerColor
                                                   ELSE oppositeColor(playerColor),
                                  !.myTurn = turn,
                                  !.planningMode = FALSE, !.planBoard = <<>>,
                                  !.prePlanBoard = <<>>, !.prePlanHistory = <<>>],
                               NewGameTree)

UINext ==
    \/ UIPlayMove \/ UIPass \/ UIUndoMove \/ UITogglePlanningMode
    \/ UIPlanBack \/ UIPlanForward \/ UIPlanNextVariation \/ UIPlanPrevVariation
    \/ UIResumeFromPlan \/ UIEngineMoved \/ UIEngineEnded

UIInit == Init /\ playerColor = 1

\* a game on the board's UI, the engine session seen through its calls
SpecUI == UIInit /\ [][UINext]_vars

\* ---------------------------------------------------------------- properties
\* positions of an engine task before its reply is applied and the lock released
PreApply == {"tem_start", "tem_genmove", "tem_black", "tem_white"}
\* positions of an engine task between applying a move and firing its callback
CallbackPending == {"tem_cbMove", "tem_cbPass"}
\* positions of the UI thread between applying its move and returning
HumanApplied == {"PlayMove_cb", "PlayMove_go", "Pass_cb", "Pass_go"}
\* positions at which a thread is about to run a callback
CallbackSites == {"PlayMove_cb", "Pass_cb", "tem_cbMove", "tem_cbPass", "tem_endcb", "hge_cb"}

\* C1 (as stated): after a successful PlayMove or Pass, IsMyTurn() is false at
\* every moment until the move callback of the engine's reply has fired. With the
\* human playing black every engine task answers a human move, and a task that
\* has not passed its callback has not fired it.
C1_Original ==
    (playerColor = 1 /\ \E t \in Tasks : pc[t] \in PreApply \cup CallbackPending)
        => ~IsMyTurn

C1_TurnState ==
    (pc[UI] \in HumanApplied \/ \E t \in Tasks : pc[t] \in PreApply) => ~IsMyTurn

C1_TurnStep ==
    /\ (~IsMyTurn /\ IsMyTurn') =>
          \/ pc[UI] = "Connect_komi"
          \/ \E t \in Tasks : pc[t] \in {"tem_genmove", "tem_white"} /\ pc'[t] \in CallbackPending
    /\ (IsMyTurn /\ ~IsMyTurn') =>
          \/ pc[UI] \in {"PlayMove_white", "Pass_play"} /\ pc'[UI] \in {"PlayMove_cb", "Pass_cb"}
          \/ gameOver'

\* C1 (amended): after a successful PlayMove or Pass, IsMyTurn() is false until the
\* engine task has applied the engine's reply and released the lock, which it
\* does before that reply's move callback fires; from then on it is true until
\* the next successful human move or the end of the game.
C1_TurnInvariant == [](C1_TurnState) /\ [][C1_TurnStep]_vars

\* the engine's reply to a human move is applied, its callback not yet fired
C1_Witness ==
    /\ playerColor = 1 /\ IsMyTurn
    /\ \E t \in Tasks : pc[t] = "tem_cbMove"
    /\ \E i \in DOMAIN cbLog : cbLog[i].by = UI

\* C2: once two consecutive passes have been made, no PlayMove or Pass succeeds:
\* while the pass counter is at two, no call of the UI thread gets its move accepted.
C2_Original ==
    [][passCount >= 2 =>
         ~(pc[UI] \in {"PlayMove_play", "Pass_play"} /\ pc'[UI] \in {"PlayMove_black", "Pass_cb"})]_vars

\* C3: move callbacks fire in game order: a callback fired later carries a
\* later move number.
C3_Original ==
    \A i \in DOMAIN cbLog : \A j \in DOMAIN cbLog : i < j => cbLog[i].n < cbLog[j].n

\* C4: at most one request is between the write of its command and the read of
\* its response.
C4_Original == Cardinality({t \in Threads : io[t] = "sent"}) <= 1

\* C5: no thread holds the session lock while it runs a move callback or a
\* game-end callback.
C5_LockFreeInCallback == \A t \in Threads : pc[t] \in CallbackSites => mu # t

\* a task is about to run the move callback while the UI thread holds the lock
C5_Witness == \E t \in Tasks : pc[t] = "tem_cbMove" /\ mu = UI /\ moveCallback

\* C6: a board state handed out is an independent copy: as long as the holder
\* keeps the same reference, what it refers to does not change.
C6_Original ==
    [][(uiBoardState' = uiBoardState /\ uiBoardState.kind # "nil")
          => Deref(uiBoardState, boardState') = Deref(uiBoardState, boardState)]_vars

\* the step with which a PlayMove or Pass returns an error
ErrorReturnStep ==
    /\ pc[UI] \in {"PlayMove_locked", "PlayMove_play", "Pass_locked", "Pass_play"}
    /\ pc'[UI] = "returned"

\* C7: a PlayMove or Pass that returns an error has changed no session state,
\* fired no callback and started no engine task.
C7_ErrorChangesNothing ==
    [][ErrorReturnStep => (ret' \in Errors /\ CallSnapshot' = callPre)]_vars

\* an illegal move was reported after the engine had passed
C7_Witness == pc[UI] = "returned" /\ ret = "illegal move" /\ passCount = 1 /\ ~gameOver

\* C8: every failed exchange is reported to the caller, and leaves the board and
\* the turn flag as they were.
C8_Original ==
    [][\A t \in Threads :
          (pc[t] \in SendSites /\ pc'[t] # pc[t] /\ err'[t])
             => /\ boardState' = boardState /\ myTurn' = myTurn
                /\ t = UI /\ pc'[UI] \in {"returned", "dead"}
                /\ ret' \in Errors \cup {"connect failed"}]_vars

HumanWinsByResignation ==
    IF playerColor = 1 THEN "Black wins by resignation" ELSE "White wins by resignation"

C9_Step ==
    /\ \A t \in Tasks : (pc[t] = "tem_genmove" /\ pc'[t] = "tem_endcb") =>
          /\ gameOver' /\ boardState'.Phase = "finished"
          /\ boardState'.Outcome = HumanWinsByResignation
          /\ boardState'.Board = boardState.Board
          /\ boardState'.MoveNumber = boardState.MoveNumber
          /\ boardState'.LastMove = boardState.LastMove
          /\ boardState'.PlayerToMove = boardState.PlayerToMove
          /\ cbLog' = cbLog
    /\ \A t \in Tasks : (pc[t] = "tem_endcb" /\ pc'[t] # "tem_endcb") =>
          /\ cbLog' = cbLog
          /\ endCallback => endLog' = Append(endLog, [outcome |-> HumanWinsByResignation, by |-> t])
    /\ (gameOver /\ pc[UI] \in {"PlayMove_locked", "Pass_locked"} /\ pc'[UI] # pc[UI]) =>
          (pc'[UI] = "returned" /\ ret' = "game is over")

C10_FinishedAbsorbing ==
    [][gameOver =>
         /\ gameOver' /\ boardState'.Phase = "finished"
         /\ boardState'.Board = boardState.Board
         /\ boardState'.MoveNumber = boardState.MoveNumber
         /\ boardState'.PlayerToMove = boardState.PlayerToMove
         /\ myTurn' = myTurn]_vars

\* the game is over while an engine task started by a human move is still waiting
C10_Witness == gameOver /\ \E t \in Tasks : pc[t] = "tem_start"

\* positions of the UI thread inside Connect
ConnectSites == {"new", "Connect_boardsize", "Connect_clear", "Connect_komi"}

\* the step with which GnuGo accepts a move or a pass of the human
HumanAcceptStep ==
    /\ pc[UI] \in {"PlayMove_play", "Pass_play"}
    /\ pc'[UI] \in {"PlayMove_black", "Pass_cb"}

C11_Step ==
    /\ (pc[UI] = "Connect_komi" /\ pc'[UI] = "OnMove") =>
          /\ IsMyTurn' = (playerColor = 1)
          /\ nSpawned' = IF playerColor = 1 THEN 0 ELSE 1
          /\ {t \in Tasks : pc'[t] # "off"} = IF playerColor = 1 THEN {} ELSE {1}
          /\ playerColor = 2 => pc'[1] = "tem_start"
          /\ boardState' = NewBoardState /\ io'[UI] = "idle"
    /\ (pc[UI] \in ConnectSites /\ pc'[UI] = "dead") =>
          /\ ret' = "connect failed" /\ nSpawned' = 0
          /\ \A t \in Tasks : pc'[t] = "off"
    /\ (nSpawned' # nSpawned /\ pc[UI] \notin {"PlayMove_go", "Pass_go"}) =>
          (pc[UI] = "Connect_komi" /\ playerColor = 2 /\ nSpawned = 0)
    /\ (playerColor = 2 /\ HumanAcceptStep) =>
          /\ boardState.MoveNumber >= 1 /\ nSpawned >= 1
          /\ nSpawned = 1 => pc[1] \notin PreApply

\* C11: when Connect returns successfully it is the human's turn exactly when the
\* human plays black; for white, Connect starts one engine task (and does not
\* run the request itself), no other task is started before a human move, and
\* no PlayMove or Pass is accepted before that task has applied the opening
\* move. When a setup command fails Connect returns an error, no task is running
\* and none is ever started.
C11_Connect == [](pc[UI] = "dead" => nSpawned = 0) /\ [][C11_Step]_vars

\* the human plays white and has a move accepted after the engine's opening move
C11_Witness == playerColor = 2 /\ pc[UI] \in HumanApplied /\ nSpawned = 1

\* the two most recent moves GnuGo holds are both passes
LastTwoPasses ==
    /\ Len(gnugoPrev) >= 2
    /\ gnugoPrev[Len(gnugoPrev)].move = PASSW
    /\ gnugoPrev[Len(gnugoPrev) - 1].move = PASSW

\* the step with which a move or a pass is accepted and counted
MoveAppliedStep == Len(gnugoPrev') = Len(gnugoPrev) + 1

C31_CounterStep ==
    MoveAppliedStep =>
        passCount' = IF gnugoPrev'[Len(gnugoPrev')].move = PASSW THEN passCount + 1 ELSE 0

C31_EndStep ==
    \A t \in Threads :
        /\ (pc[t] = "hge_lock" /\ pc'[t] = "hge_score") => LastTwoPasses
        /\ (pc[t] = "hge_score" /\ io[t] = "idle" /\ io'[t] = "sent") => LastTwoPasses

\* C31: every accepted stone resets the pass counter to zero and every pass
\* increments it; the session is ended by passing, and the final score is
\* requested, only when the two most recent moves are both passes.
C31_Original == [][C31_CounterStep /\ C31_EndStep]_vars

\* positions of a thread inside handleGameEnd after it has taken the lock
InGameEnd == {"hge_score", "hge_cb"}

\* handleGameEnd has run or is running: a thread is inside it, or the outcome is
\* one that only handleGameEnd writes
GameEndRan ==
    \/ \E t \in Threads : pc[t] \in InGameEnd
    \/ boardState.Outcome \in Scores \cup {"Game ended"}

\* C34: the game-end callback fires at most once in a session, and handleGameEnd
\* does not run a second time.
C34_Original ==
    /\ [](Len(endLog) <= 1)
    /\ [][\A t \in Threads : (pc[t] = "hge_lock" /\ pc'[t] = "hge_score") => ~GameEndRan]_vars

\* C33: every move of the engine that is applied to the session is delivered to
\* the UI's move callback exactly once: the task that applied it leaves its
\* callback site with one more callback fired, for that move.
C33_Original ==
    [][\A t \in Tasks :
          (pc[t] \in CallbackPending /\ pc'[t] \notin CallbackPending) =>
              /\ Len(cbLog') = Len(cbLog) + 1
              /\ cbLog'[Len(cbLog')].by = t
              /\ cbLog'[Len(cbLog')].n = loc[t].copy.val.MoveNumber]_vars

\* Connect has returned without error
Connected == pc[UI] \notin ConnectSites \cup {"dead"}

C36_State ==
    (Connected /\ mu = -1 /\ boardState.Phase = "playing") =>
        (myTurn <=> boardState.PlayerToMove = playerColor)

C36_Step ==
    /\ MoveAppliedStep =>
          /\ boardState'.PlayerToMove = oppositeColor(boardState.PlayerToMove)
          /\ boardState'.MoveNumber = boardState.MoveNumber + 1
    /\ (boardState'.PlayerToMove # boardState.PlayerToMove
           \/ boardState'.MoveNumber # boardState.MoveNumber) => MoveAppliedStep

\* C36: after a successful Connect and while the session lock is free and the
\* phase is playing, myTurn is true exactly when PlayerToMove is the human's
\* colour; every applied move or pass hands PlayerToMove to the other colour and
\* adds exactly one to MoveNumber, and nothing else changes either.
C36_TurnAgrees == [](C36_State) /\ [][C36_Step]_vars

\* the human plays white; the engine has answered a pass of the human
C36_Witness ==
    /\ playerColor = 2 /\ Connected /\ mu = -1 /\ boardState.Phase = "playing"
    /\ myTurn /\ boardState.MoveNumber = 3
    /\ gnugoPrev[2].move = PASSW

\* C32: while GnuGo answers and every goroutine gets to run, a playing session in
\* which the turn is not the human's (as after every successful PlayMove or
\* Pass) reaches a state in which it is the human's turn or the phase is finished.
C32_Progress ==
    (Connected /\ boardState.Phase = "playing" /\ ~myTurn)
        ~> (IsMyTurn \/ boardState.Phase = "finished")

\* the engine has answered a stone of the human and its task has ended
C32_Witness ==
    /\ playerColor = 1 /\ IsMyTurn /\ boardState.MoveNumber = 2
    /\ gnugoPrev[1].move # PASSW
    /\ \A t \in Tasks : pc[t] = "off"

\* GoBoardUI.moveHistory, and the recorder's moves: the OnMove callback appends
\* one entry to each, with the arguments it was called with.
MoveHistory == [i \in DOMAIN cbLog |-> <<cbLog[i].x, cbLog[i].y, cbLog[i].color>>]

\* the moves applied to the session, in game order: black moves first
AppliedMoves ==
    [i \in DOMAIN gnugoPrev |->
        LET d == gtpToPos(gnugoPrev[i].move, BoardSize)
        IN  <<d.x, d.y, IF i % 2 = 1 THEN 1 ELSE 2>>]

\* no call of the UI thread and no engine task is running
Quiescent == pc[UI] \in {"idle", "returned"} /\ \A t \in Tasks : pc[t] = "off"

\* C35: at every quiescent point moveHistory and the recorder's move list are
\* the sequence of the moves applied to the session, in order and colour.
C35_Original == Quiescent => MoveHistory = AppliedMoves

\* ---------------------------------------------------------------- properties of the tree
Range(f) == {f[i] : i \in DOMAIN f}

\* the children of Current, and of Current's parent
CurrentChildren == tree.nodes[tree.Current].Children
Siblings == tree.nodes[tree.nodes[tree.Current].Parent].Children

\* C15: no node has two children with the same move. AddMove with a move some
\* child of Current has returns that child, moves Current to it and changes no
\* node; AddMove with a move no child has appends one new node at the end of
\* Current's children, leaves every other node as it was, and moves Current to it.
C15_Dedup ==
    /\ \A n \in DOMAIN tree.nodes :
          LET c == tree.nodes[n].Children
          IN  \A i \in DOMAIN c : \A j \in DOMAIN c :
                 tree.nodes[c[i]].Move = tree.nodes[c[j]].Move => i = j
    /\ \A move \in TreeMoves :
          LET r == AddMove(tree, move)
              old == {c \in Range(CurrentChildren) : tree.nodes[c].Move = move}
          IN  IF old # {}
              THEN /\ r.tree.nodes = tree.nodes
                   /\ r.ret \in old /\ r.tree.Current = r.ret
              ELSE /\ Len(r.tree.nodes) = Len(tree.nodes) + 1
                   /\ r.ret \notin DOMAIN tree.nodes /\ r.tree.Current = r.ret
                   /\ r.tree.nodes[r.ret] = GameNode(move, tree.Current)
                   /\ r.tree.nodes[tree.Current].Children = Append(CurrentChildren, r.ret)
                   /\ r.tree.nodes[tree.Current].Move = tree.nodes[tree.Current].Move
                   /\ r.tree.nodes[tree.Current].Parent = tree.nodes[tree.Current].Parent
                   /\ \A n \in DOMAIN tree.nodes \ {tree.Current} : r.tree.nodes[n] = tree.nodes[n]

\* AddMove has returned the first child of the root while the root has a second one
C15_Witness ==
    /\ treeCall.op = "AddMove"
    /\ Len(tree.nodes[Root].Children) >= 2
    /\ treeCall.ret = tree.nodes[Root].Children[1]
    /\ tree.Current = treeCall.ret

RECURSIVE Below(_, _)
\* the nodes found from node by following child links
Below(t, node) ==
    {node} \cup UNION { Below(t, c) : c \in Range(t.nodes[node].Children) }

RECURSIVE ParentSteps(_, _, _)
\* the number of Parent links from node to the root; -1 when they do not lead there
ParentSteps(t, node, fuel) ==
    IF node = Root THEN 0
    ELSE IF node = nil \/ fuel = 0 THEN -1
    ELSE LET up == ParentSteps(t, t.nodes[node].Parent, fuel - 1)
         IN  IF up = -1 THEN -1 ELSE up + 1

Depth(t, node) == ParentSteps(t, node, Len(t.nodes))

\* C16: Current is a node that child links reach from the root, and Parent links
\* lead from Current to the root.
C16_CursorReachable ==
    /\ tree.Current \in DOMAIN tree.nodes
    /\ tree.Current \in Below(tree, Root)
    /\ Depth(tree, tree.Current) >= 0

\* a failed Forward has left Current on a node two levels below the root
C16_Witness ==
    /\ treeCall.op = "Forward" /\ treeCall.ret = FALSE
    /\ Depth(tree, tree.Current) = 2

\* what the calls that fail leave alone
C17_Failing ==
    /\ tree.Current = Root => (Back(tree).ret = FALSE /\ Back(tree).tree = tree)
    /\ \A idx \in ForwardArgs :
          (idx < 0 \/ idx >= Len(CurrentChildren)) =>
             (Forward(tree, idx).ret = FALSE /\ Forward(tree, idx).tree = tree)

SiblingIndex == CHOOSE i \in 0 .. (Len(Siblings) - 1) : At(Siblings, i) = tree.Current

RECURSIVE Times(_, _, _)
\* n calls of NextVariation (forward) or of PrevVariation, one after the other
Times(t, n, forward) ==
    IF n = 0 THEN t
    ELSE Times(IF forward THEN NextVariation(t).tree ELSE PrevVariation(t).tree, n - 1, forward)

\* C18: with k >= 2 siblings NextVariation moves Current from index i to index
\* (i+1) mod k and PrevVariation to (i-1) mod k, each undoes the other, and k calls
\* of either lead back to the start; at the root and with fewer than two
\* siblings both return false and leave Current where it was.
C18_VariationCycle ==
    LET n == NextVariation(tree)
        p == PrevVariation(tree)
    IN  IF tree.Current = Root \/ Len(Siblings) < 2
        THEN n.ret = FALSE /\ p.ret = FALSE /\ n.tree = tree /\ p.tree = tree
        ELSE LET k == Len(Siblings)
                 i == SiblingIndex
             IN  /\ n.ret = TRUE /\ p.ret = TRUE
                 /\ n.tree.nodes = tree.nodes /\ p.tree.nodes = tree.nodes
                 /\ n.tree.Current = At(Siblings, (i + 1) % k)
                 /\ p.tree.Current = At(Siblings, (i + k - 1) % k)
                 /\ n.tree.Current # tree.Current /\ p.tree.Current # tree.Current
                 /\ PrevVariation(n.tree).tree = tree
                 /\ NextVariation(p.tree).tree = tree
                 /\ Times(tree, k, TRUE) = tree /\ Times(tree, k, FALSE) = tree
                 /\ \A j \in 1 .. (k - 1) : Times(tree, j, TRUE) # tree /\ Times(tree, j, FALSE) # tree

\* NextVariation has wrapped around from the last of three siblings to the first
C18_Witness ==
    /\ treeCall.op = "NextVariation" /\ treeCall.ret = TRUE
    /\ tree.Current # Root /\ Len(Siblings) = 3 /\ Siblings[1] = tree.Current

RECURSIVE Replay(_, _)
\* AddMove with each move of the path, in order
Replay(t, path) ==
    IF path = <<>> THEN t ELSE Replay(AddMove(t, Head(path)).tree, Tail(path))

RECURSIVE Ancestor(_, _, _)
\* the node n Parent links above node
Ancestor(t, node, n) == IF n = 0 THEN node ELSE Ancestor(t, t.nodes[node].Parent, n - 1)

\* C19: PathFromRoot() holds the moves of the nodes on the way from the root to
\* Current, the root's first child first and Current last, without the root's
\* empty move; it is as long as Current is deep and empty at the root; AddMove
\* with its moves in order, starting at the root of the same tree, ends on
\* Current and creates no node.
C19_PathFromRoot ==
    LET path == PathFromRoot(tree)
        depth == Depth(tree, tree.Current)
    IN  /\ Len(path) = depth
        /\ tree.Current = Root => path = <<>>
        /\ \A i \in 1 .. depth : path[i] = tree.nodes[Ancestor(tree, tree.Current, depth - i)].Move
        /\ \A i \in 1 .. depth : path[i] # ""
        /\ Replay([tree EXCEPT !.Current = Root], path) = tree

\* PathFromRoot was asked two levels down a branch that is not the first child
C19_Witness ==
    /\ treeCall.op = "PathFromRoot"
    /\ Len(treeCall.ret) = 2 /\ treeCall.ret[1] # treeCall.ret[2]
    /\ tree.nodes[Root].Children[1] # tree.nodes[tree.Current].Parent

\* C20: at the root NumVariations() is 0 and VariationIndex() is -1; elsewhere
\* NumVariations() is the number of children of Current's parent and
\* VariationIndex() is the position of Current among them.
C20_Variations ==
    IF tree.Current = Root
    THEN NumVariations(tree) = 0 /\ VariationIndex(tree) = -1
    ELSE /\ NumVariations(tree) = Len(Siblings)
         /\ 0 <= VariationIndex(tree) /\ VariationIndex(tree) < NumVariations(tree)
         /\ At(Siblings, VariationIndex(tree)) = tree.Current
         /\ \A i \in 0 .. (Len(Siblings) - 1) :
               At(Siblings, i) = tree.Current => i = VariationIndex(tree)

\* VariationIndex was asked on the last of three siblings
C20_Witness ==
    /\ treeCall.op = "VariationIndex" /\ treeCall.ret = 2
    /\ tree.Current # Root /\ Len(Siblings) = 3

\* C40: Back, Forward, NextVariation, PrevVariation, PathFromRoot,
\* NumVariations, VariationIndex and HasChildren add, remove and reorder no
\* node and change no move and no parent link; only an AddMove with a move no
\* child of Current has changes the nodes, and the first child of every node
\* stays the child that was added first.
C40_NavigationFrame ==
    [][/\ treeCall'.op # "AddMove" => tree'.nodes = tree.nodes
       /\ tree'.nodes # tree.nodes =>
             /\ treeCall'.op = "AddMove"
             /\ \A c \in Range(CurrentChildren) :
                   tree.nodes[c].Move # tree'.nodes[tree'.Current].Move
       /\ \A n \in DOMAIN tree.nodes :
             /\ tree'.nodes[n].Move = tree.nodes[n].Move
             /\ tree'.nodes[n].Parent = tree.nodes[n].Parent
             /\ tree.nodes[n].Children # <<>> =>
                   /\ tree'.nodes[n].Children # <<>>
                   /\ tree'.nodes[n].Children[1] = tree.nodes[n].Children[1]
                   /\ \A c \in Range(tree'.nodes[n].Children) :
                         tree'.nodes[n].Children[1] <= c]_vars

\* PrevVariation has gone from the first child of the root to the last of three
C40_Witness ==
    /\ treeCall.op = "PrevVariation" /\ treeCall.ret = TRUE
    /\ Len(tree.nodes[Root].Children) = 3
    /\ tree.Current = tree.nodes[Root].Children[3]

\* ---------------------------------------------------------------- properties of the record
MutatingCalls == {"NewGameRecord", "AddMove", "AddSetupPosition", "UndoMoves", "SetResult"}

\* a text that opens with "(;" and ends with ")" and a newline
Closed(content) ==
    /\ Len(content) >= 4
    /\ content[1] = "(" /\ content[2] = ";"
    /\ content[Len(content) - 1] = ")" /\ content[Len(content)] = "\n"

\* the text ends with the given nodes, in order, and the closing ")"
EndsWithMoves(content, moves) ==
    LET tail == Concat(moves) \o <<")", "\n">>
    IN  /\ Len(tail) <= Len(content)
        /\ SubSeq(content, Len(content) - Len(tail) + 1, Len(content)) = tail

\* C13: when a mutating call on the record has returned without error, the file
\* holds exactly the document of the header, the setup stones and the moves in
\* memory: it opens with "(;", has one node per recorded move, in order, and
\* the closing ")"; the reader counts as many moves as are recorded. Close need
\* not have been called.
C13_FlushedDocument ==
    (recCall.at = "returned" /\ ~recCall.err /\ recCall.op \in MutatingCalls) =>
        /\ rec.made /\ rec.file = "open" /\ disk.exists
        /\ disk.content = Document(rec)
        /\ Closed(disk.content)
        /\ EndsWithMoves(disk.content, rec.moves)
        /\ countMoves(disk.content) = Len(rec.moves)

\* AddMove has returned without error on a record with setup stones and two moves
C13_Witness ==
    /\ recCall.at = "returned" /\ ~recCall.err /\ recCall.op = "AddMove"
    /\ Len(rec.moves) = 2 /\ Len(rec.setupBlack) > 0

\* C14: at every step of the rewrite of a mutating call on an existing record
\* the file holds a complete, closed document: the one before the call or the
\* one after it, never an empty or partly written text.
C14_Original ==
    (recCall.at \in Flushing /\ recCall.op \in MutatingCalls \ {"NewGameRecord"}) =>
        /\ disk.content \in {recCall.before, recCall.content}
        /\ Closed(disk.content)

\* a call on the record starts with this step
RecCallStarts(op) == recCall.at = "idle" /\ recCall'.op = op /\ recCall'.at # "idle"

\* C27: UndoMoves(n) takes the last min(n, number of moves) moves off the record
\* and leaves the moves before them, the setup stones and the header as they
\* were; an n larger than the number of moves empties the list, and the call
\* fails only when the file is closed or cannot be rewritten.
C27_UndoMoves ==
    [][/\ RecCallStarts("UndoMoves") =>
            LET n == recCall'.arg
                kept == Len(rec.moves) - Min({n, Len(rec.moves)})
            IN  /\ rec'.moves = SubSeq(rec.moves, 1, kept)
                /\ [rec' EXCEPT !.moves = rec.moves] = rec
                /\ n > Len(rec.moves) => rec'.moves = <<>>
                /\ recCall'.err = (rec.file = "nil")
       /\ (recCall.op = "UndoMoves" /\ recCall.at \in Flushing) =>
            /\ rec'.moves = rec.moves /\ rec'.setupBlack = rec.setupBlack
            /\ rec'.setupWhite = rec.setupWhite /\ rec'.Result = rec.Result
            /\ (recCall'.at = "returned" /\ ~recCall'.err) => disk'.content = Document(rec')]_vars

\* UndoMoves(1) has returned without error and one of two moves is left
C27_Witness ==
    /\ recCall.op = "UndoMoves" /\ recCall.arg = 1 /\ recCall.at = "returned" /\ ~recCall.err
    /\ Len(rec.moves) = 1 /\ Len(rec.setupBlack) > 0

\* the record has been closed
RecClosed == rec.made /\ rec.file = "nil"

\* C28: once the record is closed, another Close does nothing and does not fail,
\* every mutating call returns an error, and the file keeps its content.
C28_CloseIdempotent ==
    [][RecClosed =>
          /\ disk' = disk /\ rec'.file = "nil"
          /\ RecCallStarts("Close") =>
                (rec' = rec /\ recCall'.at = "returned" /\ ~recCall'.err)
          /\ \A op \in MutatingCalls \ {"NewGameRecord"} :
                RecCallStarts(op) => (recCall'.at = "returned" /\ recCall'.err)]_vars

\* AddMove has failed on a closed record whose file holds a document
C28_Witness ==
    /\ RecClosed /\ recCall.op = "AddMove" /\ recCall.at = "returned" /\ recCall.err
    /\ Closed(disk.content)

\* ---------------------------------------------------------------- properties of Undo
\* the step with which Undo returns nil, and the one with which a precondition
\* makes it fail
UndoReturnsNil == pc[UI] = "Undo_last" /\ pc'[UI] = "returned"
UndoRefused == pc[UI] = "Undo_locked" /\ pc'[UI] = "returned"

\* C12: an Undo that succeeds has taken back two moves, leaves the turn with
\* the human and the grid equal to GnuGo's position; an Undo refused because
\* fewer than two moves were played, it is not the human's turn or the game
\* has ended changes nothing.
C12_Original ==
    [][/\ UndoReturnsNil =>
             /\ ret' = "ok" /\ IsMyTurn'
             /\ boardState'.MoveNumber = callPre[1][1].MoveNumber - 2
             /\ boardState'.PlayerToMove = playerColor
             /\ boardState'.Board = gnugo'
       /\ UndoRefused =>
             /\ ret' \in UndoErrors /\ CallSnapshot' = callPre
             /\ gnugo' = gnugo /\ gnugoPrev' = gnugoPrev
             /\ (gameOver \/ ~myTurn \/ boardState.MoveNumber < 2)]_vars

\* ---------------------------------------------------------------- properties of the codec
\* the points of a board of the given size
OnBoard(x, y, size) == x \in 0 .. (size - 1) /\ y \in 0 .. (size - 1)

EncodedOnBoard == fnCall.op = "posToGTP" /\ OnBoard(fnCall.arg[1], fnCall.arg[2], fnCall.arg[3])

\* C25: for every size up to 19 and every point of the board, decoding the
\* vertex posToGTP prints gives the point back without error; no other point of
\* the board gets the same vertex, and the column letter is never 'I'.
C25_RoundTrip ==
    EncodedOnBoard =>
       LET size == fnCall.arg[3]
           back == gtpToPos(TextVertex(fnCall.out), size)
       IN  /\ <<back.x, back.y, back.err>> = <<fnCall.arg[1], fnCall.arg[2], FALSE>>
           /\ \A p \in (0 .. (size - 1)) \X (0 .. (size - 1)) :
                 VertexText(posToGTP(p[1], p[2], size)) = fnCall.out
                    => p = <<fnCall.arg[1], fnCall.arg[2]>>
           /\ fnCall.out[1] # "I"

\* a point right of the skipped letter, on the largest board
C25_Witness == EncodedOnBoard /\ fnCall.arg = <<18, 0, 19>>

\* a vertex of the protocol for a board: a letter of A..T other than I, inside
\* the board, and a row number from 1 to the size
ProtocolColumns == <<"A", "B", "C", "D", "E", "F", "G", "H", "J", "K", "L", "M", "N", "O",
                     "P", "Q", "R", "S", "T">>
IsProtocolVertex(text, size) ==
    LET trimmed == TrimSpace(ToUpper(text))
    IN  /\ Len(trimmed) >= 2
        /\ \E k \in 1 .. size : ProtocolColumns[k] = trimmed[1]
        /\ \A i \in 2 .. Len(trimmed) : trimmed[i] \in Digits
        /\ DigitsValue(Tail(trimmed)) \in 1 .. size

\* C26: gtpToPos gives a point only for a vertex of the protocol for the board
\* (pass and resign apart), and posToGTP gives no vertex for coordinates outside
\* the board.
C26_Original ==
    /\ (fnCall.op = "gtpToPos" /\ ~fnCall.out[3]) =>
          \/ TextVertex(fnCall.arg[1]) \in {PASSW, RESIGNW}
          \/ IsProtocolVertex(fnCall.arg[1], fnCall.arg[2])
    /\ fnCall.op = "posToGTP" => OnBoard(fnCall.arg[1], fnCall.arg[2], fnCall.arg[3])

\* ---------------------------------------------------------------- properties of parseResult
\* a number: digits with at most one '.', and a digit among them
IsNumber(str) ==
    /\ \A i \in DOMAIN str : str[i] \in Digits \cup {"."}
    /\ Cardinality({i \in DOMAIN str : str[i] = "."}) <= 1
    /\ \E i \in DOMAIN str : str[i] \in Digits

\* the canonical tokens of a result
IsCanonical(str) ==
    \/ str \in {<<"?">>, <<"J", "i", "g", "o">>, <<"V", "o", "i", "d">>, <<"0">>}
    \/ /\ Len(str) >= 3 /\ str[1] \in {"B", "W"} /\ str[2] = "+"
       /\ \/ SubSeq(str, 3, Len(str)) \in {<<"R">>, <<"T">>, <<"F">>, <<"?">>}
          \/ IsNumber(SubSeq(str, 3, Len(str)))

\* the sentences "<Colour> wins by <margin>" with or without " points"
Sentence(colour, margin, ending) ==
    colour \o <<" ", "w", "i", "n", "s", " ", "b", "y", " ">> \o margin \o ending

ParsedText == TrimSpace(fnCall.arg[1])

\* C29: parseResult always returns a canonical token: a canonical text is kept,
\* "<Colour> wins by <number> points" gives the colour's letter, '+' and that
\* number, resignation, time and forfeit give R, T and F, a winner without a
\* number gives '+?', any other text gives "?"; parsing the result again
\* changes nothing.
C29_Original ==
    fnCall.op = "parseResult" =>
       /\ IsCanonical(fnCall.out)
       /\ IsCanonical(ParsedText) => fnCall.out = ParsedText
       /\ parseResult(fnCall.out) = fnCall.out
       /\ \A e \in ResultEndings, m \in ResultMargins :
             \A c \in {<<<<"W", "h", "i", "t", "e">>, "W">>, <<<<"B", "l", "a", "c", "k">>, "B">>} :
                ParsedText = Sentence(c[1], m, e) =>
                   fnCall.out = IF IsNumber(m) THEN <<c[2], "+">> \o m
                                ELSE IF HasPrefix(m, Resign) THEN <<c[2], "+", "R">>
                                ELSE IF m = TimeWord THEN <<c[2], "+", "T">>
                                ELSE IF m = Forfeit THEN <<c[2], "+", "F">>
                                ELSE <<c[2], "+", "?">>
       /\ (~IsCanonical(ParsedText)
           /\ ~HasPrefix(ToLower(ParsedText), WhiteWins)
           /\ ~HasPrefix(ToLower(ParsedText), BlackWins)) => fnCall.out = <<"?">>

\* ---------------------------------------------------------------- properties of the reader
Points == Idx \X Idx
Adjacent(p, q) ==
    \/ p[1] = q[1] /\ (p[2] = q[2] + 1 \/ q[2] = p[2] + 1)
    \/ p[2] = q[2] /\ (p[1] = q[1] + 1 \/ q[1] = p[1] + 1)
StoneAt(board, p) == board[p[2]][p[1]]

\* the group of the stone at p: the stones of its colour connected to it
RECURSIVE GrowGroup(_, _)
GrowGroup(board, S) ==
    LET more == {q \in Points \ S :
                    \E p \in S : Adjacent(p, q) /\ StoneAt(board, q) = StoneAt(board, p)}
    IN  IF more = {} THEN S ELSE GrowGroup(board, S \cup more)
GroupOf(board, p) == GrowGroup(board, {p})
\* the liberties of a group: the empty points next to one of its stones
LibertiesOf(board, G) ==
    {q \in Points : StoneAt(board, q) = 0 /\ \E p \in G : Adjacent(p, q)}

\* the board after a move of color at (x, y), as the rule has it: the stone
\* placed, the opposing groups next to it that have no liberty taken whole
BoardAfterMove(board, x, y, color) ==
    LET placed == [board EXCEPT ![y][x] = color]
        opponent == 3 - color
        dead == UNION {GroupOf(placed, q) :
                         q \in {n \in Points : /\ Adjacent(n, <<x, y>>)
                                               /\ StoneAt(placed, n) = opponent
                                               /\ LibertiesOf(placed, GroupOf(placed, n)) = {}}}
    IN  [yy \in Idx |-> [xx \in Idx |-> IF <<xx, yy>> \in dead THEN 0 ELSE placed[yy][xx]]]

\* C22: replaying a move of colour c at (x, y) gives exactly the board with the
\* stone placed at (x, y) and every opposing group that touches (x, y) and has
\* no liberty removed whole; nothing else changes, no stone of colour c is
\* removed, and a placement without liberties stays on the board.
C22_ReplayMove ==
    fnCall.op = "ReplayMove" =>
        LET board == fnCall.arg[1]
            x == fnCall.arg[2]
            y == fnCall.arg[3]
            color == fnCall.arg[4]
        IN  /\ fnCall.out = BoardAfterMove(board, x, y, color)
            /\ fnCall.out[y][x] = color
            /\ \A p \in Points : StoneAt(board, p) = color => StoneAt(fnCall.out, p) = color

\* a move that takes a group of two stones or more
C22_Witness ==
    /\ fnCall.op = "ReplayMove"
    /\ LET board == fnCall.arg[1]
           opponent == 3 - fnCall.arg[4]
       IN  /\ Cardinality({p \in Points : StoneAt(board, p) = opponent
                                          /\ StoneAt(fnCall.out, p) = 0}) >= 2
           /\ fnCall.out = BoardAfterMove(board, fnCall.arg[2], fnCall.arg[3], fnCall.arg[4])

\* the position after the moves from the k-th on, by the rule
RECURSIVE BoardAfterMoves(_, _, _)
BoardAfterMoves(board, moves, k) ==
    IF k > Len(moves) THEN board
    ELSE BoardAfterMoves(IF moves[k][1] = -1 THEN board
                         ELSE BoardAfterMove(board, moves[k][1], moves[k][2], moves[k][3]),
                         moves, k + 1)

\* C23: a board written with AddSetupPosition and replayed with ReplayToEnd
\* comes back as it was, the same stones of the same colours at the same points
\* and no others; moves recorded afterwards are applied on top of it.
C23_SetupRoundTrip ==
    fnCall.op = "ReplayRecord" =>
        /\ fnCall.out[1] = BoardAfterMoves(fnCall.arg[1], fnCall.arg[2], 1)
        /\ fnCall.arg[2] = <<>> => fnCall.out[1] = fnCall.arg[1]
        /\ fnCall.out[2] = Len(fnCall.arg[2])
        /\ ~fnCall.out[3] /\ ~fnCall.out[4]

\* a board with stones of both colours came back, with a move on top of it
C23_Witness ==
    /\ fnCall.op = "ReplayRecord"
    /\ \E p, q \in Points : StoneAt(fnCall.arg[1], p) = 1 /\ StoneAt(fnCall.arg[1], q) = 2
    /\ Len(fnCall.arg[2]) = 1 /\ fnCall.arg[2][1][1] # -1
    /\ fnCall.out[1] = BoardAfterMoves(fnCall.arg[1], fnCall.arg[2], 1)
    /\ fnCall.out[1] # fnCall.arg[1]

RECURSIVE ListedNames(_, _, _)
ListedNames(kinds, stamps, listed) ==
    IF stamps = {} THEN <<>>
    ELSE LET last == CHOOSE st \in stamps : \A o \in stamps : Code(o) <= Code(st)
         IN  (IF kinds[last] \in listed THEN <<ListedEntry(last, kinds[last]).name>> ELSE <<>>)
             \o ListedNames(kinds, stamps \ {last}, listed)

\* C30 (as stated): ListGames returns the records of the directory newest
\* first, by descending file name; it leaves out every entry that is a
\* directory, does not end in .sgf or cannot be parsed as a record, and does
\* not fail because of such an entry; a directory that does not exist gives an
\* empty result and no error.
C30_Original ==
    /\ (fnCall.op = "ListGames" /\ fnCall.arg[1] = "directory") =>
          /\ ~fnCall.out[2]
          /\ [i \in DOMAIN fnCall.out[1] |-> fnCall.out[1][i][1]]
                = ListedNames(fnCall.arg[2], ListedStamps, {"record"})
    /\ (fnCall.op = "ListGames" /\ fnCall.arg[1] = "missing") =>
          fnCall.out = <<<<>>, FALSE>>

\* ---------------------------------------------------------------- properties of the board's UI
\* the operations of the UI other than ResumeFromPlan
PlanningOps ==
    {"PlayMove", "Pass", "UndoMove", "PlanBack", "PlanForward", "PlanNextVariation",
     "PlanPrevVariation", "TogglePlanningMode"}

\* C21 (as stated): while planning mode is active, no operation of the UI
\* other than ResumeFromPlan - PlayMove, Pass, UndoMove, PlanBack, PlanForward,
\* PlanNextVariation, PlanPrevVariation, leaving planning mode - makes the
\* engine session send a command or changes the recorder's list of moves.
C21_Original ==
    [][(ui.planningMode /\ ui'.op \in PlanningOps)
          => (ui'.engCalls = ui.engCalls /\ ui'.recMoves = ui.recMoves)]_vars

\* the step of an UndoMove that has called the engine
UndoCalledStep == ui'.op = "UndoMove" /\ ui'.engCalls # ui.engCalls

C37_Step ==
    UndoCalledStep =>
        /\ \/ /\ ui'.engMoves = DropLast(ui.engMoves, 2)
              /\ ui'.moveHistory = DropLast(ui.moveHistory, 2)
              /\ ui'.recMoves = DropLast(ui.recMoves, 2)
           \/ /\ ui'.engMoves = ui.engMoves
              /\ ui'.moveHistory = ui.moveHistory
              /\ ui'.recMoves = ui.recMoves
        /\ Len(ui.moveHistory) = Len(ui.engMoves)
              => Len(ui'.moveHistory) = Len(ui'.engMoves)

\* C37: an UndoMove that reaches the engine either takes two moves from
\* GnuGo, from moveHistory and from the record, or leaves all three as they
\* were; moveHistory is as long as GnuGo's list of moves when it returns, if
\* it was so before.
C37_Original == [][C37_Step]_vars

\* the step with which TogglePlanningMode leaves planning mode
LeavePlanStep == ui.planningMode /\ ui'.op = "TogglePlanningMode" /\ ~ui'.planningMode

\* C38: TogglePlanningMode leaves planning mode with BoardState and moveHistory
\* as the engine session last reported them: when they agreed with GnuGo's
\* moves before the step, they agree after it.
C38_Original ==
    [][(LeavePlanStep /\ ui.moveHistory = ui.engMoves
                      /\ ui.Board = EngineBoard(ui.engMoves, 1, EmptyBoard))
          => /\ ui'.moveHistory = ui'.engMoves
             /\ ui'.Board = EngineBoard(ui'.engMoves, 1, EmptyBoard)]_vars

\* C39: in planning mode the plan board is the snapshot with the moves of
\* PathFromRoot() replayed, and planColor is the colour opposite to the last
\* move of that path, or the snapshot's side to move at the root: what the
\* operations leave is what rebuildPlanBoard computes from the cursor.
C39_Original ==
    ui.planningMode =>
        /\ ui.planBoard = rebuildPlanBoard(ui, tree).planBoard
        /\ ui.planColor = rebuildPlanBoard(ui, tree).planColor

====
